---- MODULE Spec2Model ----
(***************************************************************************)
(* A model of the stream editor of src/text/sed.rs: the address model      *)
(* (Command::need_execute), the substitution engine (match_pattern,       *)
(* update_pattern_space, execute_replace) and the execution engine        *)
(* (Sed::execute, Sed::process_line, Sed::process_input, Sed::sed).       *)
(*                                                                         *)
(* Strings are sequences of one-character strings.  Offsets into strings  *)
(* are 0-based as in the source; Slice converts to TLA+'s 1-based SubSeq. *)
(***************************************************************************)
EXTENDS Integers, Sequences, FiniteSets, TLC

VARIABLES
    script,                     \* Sed.script.0 with the range state of every address
    input_sources,              \* Sed.input_sources: each source is its sequence of lines
    quiet,                      \* Sed.quiet
    pattern_space,              \* Sed.pattern_space
    hold_space,                 \* Sed.hold_space
    after_space,                \* Sed.after_space
    current_line,               \* Sed.current_line
    has_replacements_since_t,   \* Sed.has_replacements_since_t
    src_idx,                    \* position of the for loop of Sed::sed (1-based)
    file_pos,                   \* lines consumed from Sed.current_file
    i,                          \* the local `i` of Sed::process_line
    global_instruction,         \* the local `global_instruction` of Sed::process_line
    stdout,                     \* what has been written to standard output
    openable,                   \* per input source, whether File::open succeeds
    stderr,                     \* what has been written to standard error
    wfiles,                     \* per existing file a w flag may name, the writes appended to it
    pc,                         \* where the program is
    raw_script,                 \* the text given to the outermost Script::parse
    files,                      \* the paths that name an existing regular file
    frames,                     \* the activations of Script::parse, innermost last:
                                \* [chars, i, commands, address, command_added, last_commands_count]
    parsed,                     \* what the outermost Script::parse returned, once it has
    args,                       \* timeout: the Args given to timeout()
    FOREGROUND,                 \* timeout: the static FOREGROUND
    FIRST_SIGNAL,               \* timeout: the static FIRST_SIGNAL
    KILL_AFTER,                 \* timeout: the static KILL_AFTER, <<>> for None
    TIMED_OUT,                  \* timeout: the static TIMED_OUT
    kill_after_lock,            \* timeout: whether the mutex of KILL_AFTER is held
    handlers,                   \* timeout: the running invocations of handler, innermost last
    alarm,                      \* timeout: the tick at which the alarm of the process expires
    now,                        \* timeout: the ticks passed since the fork
    pending,                    \* timeout: the signals generated for the process, not yet delivered
    ignored,                    \* timeout: the signals whose disposition is SIG_IGN
    child,                      \* timeout: the child: [state, code]
    sent,                       \* timeout: the signals the process has sent: [signal, to, at, by]
    armed,                      \* timeout: the calls of alarm(): [ticks, at, by]
    external,                   \* timeout: the number of signals other processes have sent
    exit_code,                  \* timeout: what timeout() returned, -1 before
    tpc,                        \* timeout: where timeout() is
    regex_string,               \* awk: Regex.regex_string, as the items of the expression
    string,                     \* awk: the `string` given to Regex::match_locations
    max_count,                  \* awk: the `max_count` given to Regex::match_locations
    match_buffer,               \* awk: the `match_buffer` of Regex::match_locations
    next_start,                 \* awk: the local `next_start` of Regex::match_locations
    iteration,                  \* awk: the iterations of the for loop begun so far
    mpc,                        \* awk: where Regex::match_locations is
    position_chars,             \* the `chars` given to get_current_line_and_col
    position_i,                 \* the `i` given to get_current_line_and_col
    position                    \* [returned, value]: whether get_current_line_and_col has
                                \* returned, and what: <<>> for None, <<line, col>> for Some

sedVars == <<script, input_sources, quiet, pattern_space, hold_space, after_space,
             current_line, has_replacements_since_t, src_idx, file_pos, i,
             global_instruction, stdout, openable, stderr, wfiles, pc>>

parseVars == <<raw_script, files, frames, parsed>>

timeoutVars == <<args, FOREGROUND, FIRST_SIGNAL, KILL_AFTER, TIMED_OUT, kill_after_lock,
                 handlers, alarm, now, pending, ignored, child, sent, armed, external,
                 exit_code, tpc>>

awkVars == <<regex_string, string, max_count, match_buffer, next_start, iteration, mpc>>

positionVars == <<position_chars, position_i, position>>

vars == <<sedVars, parseVars, timeoutVars, awkVars, positionVars>>

\* the variables of the call of get_current_line_and_col while another program runs
NoPosition ==
    /\ position_chars = <<>>
    /\ position_i = 0
    /\ position = [returned |-> FALSE, value |-> <<>>]

\* the variables of awk's Regex while another program runs
NoAwk ==
    /\ regex_string = <<>>
    /\ string = <<>>
    /\ max_count = 0
    /\ match_buffer = <<>>
    /\ next_start = 0
    /\ iteration = 0
    /\ mpc = "none"

\* the variables of timeout while sed runs
NoTimeout ==
    /\ args = <<>>
    /\ FOREGROUND = FALSE
    /\ FIRST_SIGNAL = "TERM"
    /\ KILL_AFTER = <<>>
    /\ TIMED_OUT = FALSE
    /\ kill_after_lock = FALSE
    /\ handlers = <<>>
    /\ alarm = <<>>
    /\ now = 0
    /\ pending = {}
    /\ ignored = {}
    /\ child = <<>>
    /\ sent = <<>>
    /\ armed = <<>>
    /\ external = 0
    /\ exit_code = -1
    /\ tpc = "none"

\* the variables of Script::parse while no script is being parsed
NotParsing ==
    /\ raw_script = <<>>
    /\ files = {}
    /\ frames = <<>>
    /\ parsed = [status |-> "none", commands |-> <<>>, err |-> ""]

NL == "\n"
BS == "\\"

Max(S) == CHOOSE x \in S : \A y \in S : y <= x
Min(S) == CHOOSE x \in S : \A y \in S : x <= y

\* s[a..b) with 0-based offsets, as str::get(a..b) of an in-bounds range
Slice(s, a, b) == SubSeq(s, a + 1, b)

\* String::replace_range(a..b, v)
ReplaceRange(s, a, b, v) == Slice(s, 0, a) \o v \o Slice(s, b, Len(s))

\* String::insert(idx, ch)
InsertAt(s, idx, ch) == Slice(s, 0, idx) \o <<ch>> \o Slice(s, idx, Len(s))

RECURSIVE Flatten(_)
Flatten(ss) == IF ss = <<>> THEN <<>> ELSE Head(ss) \o Flatten(Tail(ss))

Contains(s, ch) == \E k \in 1..Len(s) : s[k] = ch

(***************************************************************************)
(* The regex_t values.  A compiled pattern is a sequence of literal parts, *)
(* each either plain or a \( \) group: enough for literal patterns and    *)
(* for patterns such as \(a\)\(b\).                                        *)
(***************************************************************************)
Lit(t) == [text |-> t, group |-> FALSE]
Grp(t) == [text |-> t, group |-> TRUE]

RegexText(re) == Flatten([p \in 1..Len(re) |-> re[p].text])

\* offset of part p inside the pattern's text
PartOffset(re, p) == Len(Flatten([q \in 1..(p - 1) |-> re[q].text]))

\* the part indices that are groups, in order: group number g is GroupParts(re)[g]
GroupParts(re) ==
    LET idx == [p \in 1..Len(re) |-> p]
        IsGroup(p) == re[p].group
    IN SelectSeq(idx, IsGroup)

NMATCH == 9

\* regexec(&re, input, 9, pmatch, 0) on a pmatch buffer that was zeroed
Regexec(re, input) ==
    LET text == RegexText(re)
        n == Len(text)
        starts == {k \in 0..(Len(input) - n) : Slice(input, k, k + n) = text}
        gp == GroupParts(re)
    IN IF starts = {}
       THEN [j \in 1..NMATCH |-> [rm_so |-> 0, rm_eo |-> 0]]
       ELSE LET k == Min(starts)
            IN [j \in 1..NMATCH |->
                  IF j = 1 THEN [rm_so |-> k, rm_eo |-> k + n]
                  ELSE IF j - 1 <= Len(gp)
                       THEN [rm_so |-> k + PartOffset(re, gp[j - 1]),
                             rm_eo |-> k + PartOffset(re, gp[j - 1]) + Len(re[gp[j - 1]].text)]
                       ELSE [rm_so |-> 0 - 1, rm_eo |-> 0 - 1]]

\* the while loop of match_pattern: the set of group maps collected into the HashSet
RECURSIVE MatchLoop(_, _, _, _)
MatchLoop(re, haystack, off, acc) ==
    IF ~(off < Len(haystack)) THEN acc
    ELSE LET pmatch == Regexec(re, Slice(haystack, off, Len(haystack)))
             kept == {j \in 0..(NMATCH - 1) :
                        ~(pmatch[j + 1].rm_so <= 0 /\ pmatch[j + 1].rm_eo <= 0)}
         IN IF kept = {} THEN acc
            ELSE LET groups == [j \in kept |-> [start |-> pmatch[j + 1].rm_so + off,
                                                end |-> pmatch[j + 1].rm_eo + off]]
                     last_offset == Max({groups[j].end - groups[j].start : j \in kept})
                 IN MatchLoop(re, haystack, off + last_offset, acc \cup {groups})

MatchSet(re, haystack) == MatchLoop(re, haystack, 0, {})

\* match_pattern's result: the matches sorted (stably, from the HashSet's arbitrary
\* order) by the start of whichever group each match's HashMap yields first
MatchPattern(re, haystack) ==
    LET ms == MatchSet(re, haystack)
        n == Cardinality(ms)
        perms == {f \in [1..n -> ms] : \A a, b \in 1..n : f[a] = f[b] => a = b}
        cand == UNION {{m[j].start : j \in DOMAIN m} : m \in ms}
        keys == {k \in [ms -> cand] : \A m \in ms : \E j \in DOMAIN m : k[m] = m[j].start}
    IN {f \in perms : \E k \in keys : \A a, b \in 1..n : a < b => k[f[a]] <= k[f[b]]}

(***************************************************************************)
(* update_pattern_space.  A result is [ps, panic]: the pattern space and   *)
(* whether the call aborted the process.                                   *)
(***************************************************************************)
IsDigit(ch) == ch \in {"0", "1", "2", "3", "4", "5", "6", "7", "8", "9"}

\* the positions of the unescaped '&' of the template, as the source collects
\* them: those found by windows(2) in descending order, then 0 when the
\* template starts with '&'
AmpersandPositions(replacement) ==
    LET n == Len(replacement)
        Hit(k) == replacement[k] /= BS /\ replacement[k + 1] = "&"
        desc == [k \in 1..(n - 1) |-> n - k]
        found == SelectSeq(desc, Hit)
    IN found \o (IF n > 0 /\ replacement[1] = "&" THEN <<0>> ELSE <<>>)

\* the positions of the digits not preceded by a backslash, collected the same way
GroupPositions(replacement) ==
    LET n == Len(replacement)
        Hit(k) == replacement[k] /= BS /\ IsDigit(replacement[k + 1])
        desc == [k \in 1..(n - 1) |-> n - k]
        found == SelectSeq(desc, Hit)
    IN found \o (IF n > 0 /\ IsDigit(replacement[1]) THEN <<0>> ELSE <<>>)

\* for position in ampersand_positions { local_replacement.replace_range(position..position + 1, value) }
RECURSIVE ExpandAmpersands(_, _, _)
ExpandAmpersands(local, positions, value) ==
    IF positions = <<>> THEN local
    ELSE ExpandAmpersands(ReplaceRange(local, Head(positions), Head(positions) + 1, value),
                          Tail(positions), value)

\* `first` is the key ranges.iter().next() yields
UpdatePatternSpaceFrom(ps, replacement, ranges, first) ==
    LET amp == AmpersandPositions(replacement)
        r == ranges[first]
        inb == r.end <= Len(ps)
        value == Slice(ps, r.start, r.end)
        local == ExpandAmpersands(replacement, amp, value)
    IN IF amp /= <<>> /\ ~inb
       THEN [ps |-> ps, panic |-> TRUE]              \* value.unwrap() on None
       ELSE IF Cardinality(DOMAIN ranges) /= 1
       THEN \* the group references are expanded into local_replacement, which is
            \* then dropped: the pattern space is not written in this branch
            IF GroupPositions(replacement) /= <<>>
               /\ \E g \in DOMAIN ranges : ranges[g].end > Len(ps)
            THEN [ps |-> ps, panic |-> TRUE]
            ELSE [ps |-> ps, panic |-> FALSE]
       ELSE IF ~inb
       THEN [ps |-> ps, panic |-> TRUE]              \* replace_range out of bounds
       ELSE [ps |-> ReplaceRange(ps, r.start, r.end, local), panic |-> FALSE]

\* The outcomes of update_pattern_space over the HashMap's iteration order
UpdatePatternSpace(ps, replacement, ranges) ==
    {UpdatePatternSpaceFrom(ps, replacement, ranges, first) : first \in DOMAIN ranges}

(***************************************************************************)
(* execute_replace.  Flags are [kind, n]; a result is                      *)
(* [ps, out, panic, matched, wfile], wfile the path the pattern space is   *)
(* to be appended to, <<>> for none.                                       *)
(***************************************************************************)
ReplaceNth(n) == [kind |-> "ReplaceNth", n |-> n]
ReplaceAll == [kind |-> "ReplaceAll", n |-> 0]
PrintPatternIfReplace == [kind |-> "PrintPatternIfReplace", n |-> 0]
AppendToIfReplace(path) == [kind |-> "AppendToIfReplace", n |-> 0, path |-> path]

FileF == <<"f">>

HasFlag(flags, kind) == \E k \in 1..Len(flags) : flags[k].kind = kind

\* flags.iter().find(is_replace_n)
FirstNth(flags) ==
    LET k == Min({j \in 1..Len(flags) : flags[j].kind = "ReplaceNth"})
    IN flags[k].n

\* for ranges in match_subranges.iter().rev() { update_pattern_space(..) }
RECURSIVE ReplaceAllRev(_, _, _, _)
ReplaceAllRev(ps, replacement, matches, k) ==
    IF k = 0 THEN {[ps |-> ps, panic |-> FALSE]}
    ELSE UNION {IF u.panic THEN {u} ELSE ReplaceAllRev(u.ps, replacement, matches, k - 1) :
                u \in UpdatePatternSpace(ps, replacement, matches[k])}

\* the loop that puts a backslash before embedded newlines
RECURSIVE EscapeNewlines(_, _)
EscapeNewlines(ps, k) ==
    IF ~(k < Len(ps)) THEN ps
    ELSE IF ps[k + 1] = NL
         THEN EscapeNewlines(InsertAt(ps, IF k > 0 THEN k - 1 ELSE 0, BS), k + 2)
         ELSE EscapeNewlines(ps, k + 1)

\* the selection of the matches to replace, for one order of match_subranges
\* and one build (overflow_checks: whether `*n - 1` traps on n = 0)
SelectAndUpdate(ps, replacement, flags, matches, overflow_checks) ==
    IF matches /= <<>> /\ ~HasFlag(flags, "ReplaceNth") /\ ~HasFlag(flags, "ReplaceAll")
    THEN UpdatePatternSpace(ps, replacement, matches[1])
    ELSE IF HasFlag(flags, "ReplaceNth")
    THEN LET n == FirstNth(flags)
         IN IF n = 0
            THEN {[ps |-> ps, panic |-> overflow_checks]}   \* 0usize - 1
            ELSE IF Len(matches) >= n - 1
            THEN IF n <= Len(matches)
                 THEN UpdatePatternSpace(ps, replacement, matches[n])
                 ELSE {[ps |-> ps, panic |-> TRUE]}          \* get(n - 1).unwrap() on None
            ELSE {[ps |-> ps, panic |-> FALSE]}
    ELSE IF HasFlag(flags, "ReplaceAll")
    THEN ReplaceAllRev(ps, replacement, matches, Len(matches))
    ELSE {[ps |-> ps, panic |-> FALSE]}

\* flags.iter().find_map(AppendToIfReplace(wfile) => Some(wfile))
FirstWfile(flags) ==
    LET ws == {j \in 1..Len(flags) : flags[j].kind = "AppendToIfReplace"}
    IN IF ws = {} THEN <<>> ELSE <<flags[Min(ws)].path>>

\* OpenOptions::new().append(true).open(wfile) and file.write(bytes): the files after
\* it; the open fails on a path that names no file
AppendTo(fs, wfile, bytes) ==
    IF wfile = <<>> \/ wfile[1] \notin DOMAIN fs THEN fs
    ELSE [fs EXCEPT ![wfile[1]] = Append(@, bytes)]

\* whether execute_replace returns Err(SedError::Io)
OpenFails(fs, wfile) == wfile /= <<>> /\ wfile[1] \notin DOMAIN fs

ExecuteReplace(ps, re, replacement, flags) ==
    UNION {UNION {
        {IF u.panic
         THEN [ps |-> u.ps, out |-> <<>>, panic |-> TRUE, matched |-> matches /= <<>>,
               wfile |-> <<>>]
         ELSE LET esc == EscapeNewlines(u.ps, 0)
              IN [ps |-> esc,
                  out |-> IF HasFlag(flags, "PrintPatternIfReplace") /\ matches /= <<>>
                          THEN esc \o <<NL>> ELSE <<>>,
                  panic |-> FALSE,
                  matched |-> matches /= <<>>,
                  wfile |-> FirstWfile(flags)]
         : u \in SelectAndUpdate(ps, replacement, flags, matches, oc)}
        : oc \in BOOLEAN}
      : matches \in MatchPattern(re, ps)}

(***************************************************************************)
(* Addresses and commands.                                                 *)
(***************************************************************************)
Number(n) == [kind |-> "Number", n |-> n, re |-> <<>>]
Last == [kind |-> "Last", n |-> 0, re |-> <<>>]
Pattern(re) == [kind |-> "Pattern", n |-> 0, re |-> re]

\* AddressRange::new for one or two tokens: Option<(bool, bool)> is <<>> or <<a, b>>
AddressRange(limits) ==
    [limits |-> limits,
     passed |-> IF Len(limits) = 2 THEN <<FALSE, FALSE>> ELSE <<>>,
     on_limits |-> IF Len(limits) = 2 THEN <<FALSE, FALSE>> ELSE <<>>]

\* Option<Address>: None is the empty sequence of ranges
NoAddress == <<>>
Addr1(t) == <<AddressRange(<<t>>)>>
Addr2(t, u) == <<AddressRange(<<t, u>>)>>

Command(verb, addr) ==
    [verb |-> verb, addr |-> addr, label |-> <<>>, text |-> <<>>, to_first_line |-> FALSE,
     re |-> <<>>, replacement |-> <<>>, flags |-> <<>>, string1 |-> <<>>, string2 |-> <<>>]

\* the verbs Command::get_mut_address knows
AddressedVerbs ==
    {"Block", "PrintTextAfter", "BranchToLabel", "DeletePatternAndPrintText",
     "DeletePattern", "ReplacePatternWithHold", "AppendHoldToPattern",
     "ReplaceHoldWithPattern", "AppendPatternToHold", "PrintTextBefore",
     "PrintPatternBinary", "PrintPatternAndReplaceWithNext", "PrintPattern", "Quit",
     "PrintFile", "Replace", "Test", "AppendPatternToFile", "ExchangeSpaces",
     "ReplaceCharSet", "PrintStandard"}

\* one element of reached_now
ReachedNow(range, k, line_number, line) ==
    LET token == range.limits[k]
    IN CASE token.kind = "Number" -> token.n = line_number + 1
         [] token.kind = "Pattern" -> MatchSet(token.re, line) /= {}
         [] token.kind = "Last" ->
              IF k = 1 THEN TRUE
              ELSE range.passed /= <<>> /\ ~range.passed[1] /\ range.passed[2]

\* the body of the for loop of Command::need_execute for one range
EvalRange(range, line_number, line) ==
    IF Len(range.limits) = 1
    THEN [need |-> ReachedNow(range, 1, line_number, line), range |-> range, panic |-> FALSE]
    ELSE LET r0 == ReachedNow(range, 1, line_number, line)
             r1 == ReachedNow(range, 2, line_number, line)
             old_a == range.passed[1]
             old_b == range.passed[2]
             a == r0 \/ old_a
             b == r1 \/ old_b
         IN IF ~old_a /\ old_b
            THEN [need |-> FALSE, range |-> range, panic |-> TRUE]     \* unreachable!()
            ELSE [need |-> (~(old_a /\ old_b) /\ r1) \/ (a /\ ~b),
                  range |-> [range EXCEPT !.passed = <<a, b>>, !.on_limits = <<r0, r1>>],
                  panic |-> FALSE]

\* Command::need_execute: [need, cmd, panic], cmd carrying the new range state
NeedExecute(cmd, line_number, line) ==
    IF cmd.verb \notin AddressedVerbs \/ cmd.addr = NoAddress
    THEN [need |-> TRUE, cmd |-> cmd, panic |-> FALSE]
    ELSE LET ev == [k \in 1..Len(cmd.addr) |-> EvalRange(cmd.addr[k], line_number, line)]
         IN [need |-> \A k \in 1..Len(cmd.addr) : ev[k].need,
             cmd |-> [cmd EXCEPT !.addr = [k \in 1..Len(cmd.addr) |-> ev[k].range]],
             panic |-> \E k \in 1..Len(cmd.addr) : ev[k].panic]

(***************************************************************************)
(* Sed::execute.  An outcome is the session after the call together with  *)
(* what the call wrote, the ControlFlowInstruction it returned and        *)
(* whether it aborted the process.                                         *)
(***************************************************************************)
RECURSIVE TrimEndCR(_)
TrimEndCR(s) == IF s /= <<>> /\ s[Len(s)] = "\r" THEN TrimEndCR(SubSeq(s, 1, Len(s) - 1)) ELSE s

RECURSIVE SkipWhileNL(_)
SkipWhileNL(s) == IF s /= <<>> /\ Head(s) = NL THEN SkipWhileNL(Tail(s)) ELSE s

\* the text before the first newline, or the whole text
UpToFirstNL(s) ==
    IF Contains(s, NL) THEN SubSeq(s, 1, Min({k \in 1..Len(s) : s[k] = NL}) - 1) ELSE s

\* str::replace(a, b) for characters a and b
ReplaceChar(s, a, b) == [k \in 1..Len(s) |-> IF s[k] = a THEN b ELSE s[k]]

\* for (a, b) in string1.chars().zip(string2.chars()) { pattern_space = pattern_space.replace(a, b) }
RECURSIVE ReplaceCharSet(_, _, _)
ReplaceCharSet(s, string1, string2) ==
    IF string1 = <<>> \/ string2 = <<>> THEN s
    ELSE ReplaceCharSet(ReplaceChar(s, Head(string1), Head(string2)), Tail(string1), Tail(string2))

\* str::replace("\\n", "\n")
RECURSIVE UnescapeNL(_)
UnescapeNL(s) ==
    IF Len(s) < 2 THEN s
    ELSE IF s[1] = BS /\ s[2] = "n" THEN <<NL>> \o UnescapeNL(SubSeq(s, 3, Len(s)))
    ELSE <<Head(s)>> \o UnescapeNL(Tail(s))

DigitChars == <<"0", "1", "2", "3", "4", "5", "6", "7", "8", "9">>

\* format!("{}", n)
RECURSIVE Decimal(_)
Decimal(n) == IF n < 10 THEN <<DigitChars[n + 1]>> ELSE Decimal(n \div 10) \o <<DigitChars[(n % 10) + 1]>>

\* the position counted from 1: a branch through it lands one command too far
LabelPositionFromOne(sc, label) ==
    LET hits == {k \in 1..Len(sc) : sc[k].verb = "BearBranchLabel" /\ sc[k].label = label}
    IN IF hits = {} THEN 0 - 1 ELSE Min(hits)

\* the position with a missing label taken for the start of the script
LabelPositionOrStart(sc, label) ==
    LET hits == {k \in 1..Len(sc) : sc[k].verb = "BearBranchLabel" /\ sc[k].label = label}
    IN IF hits = {} THEN 0 ELSE Min(hits) - 1

\* script.0.iter().position(|cmd| cmd is BearBranchLabel(label)), or -1 for None
LabelPosition(sc, label) ==
    LET hits == {k \in 1..Len(sc) : sc[k].verb = "BearBranchLabel" /\ sc[k].label = label}
    IN IF hits = {} THEN 0 - 1 ELSE Min(hits) - 1

Outcome(cmd, ps, hs, as, hr, q, out, instr, label, panic) ==
    [cmd |-> cmd, ps |-> ps, hs |-> hs, as |-> as, hr |-> hr, quiet |-> q, out |-> out,
     instr |-> instr, label |-> label, panic |-> panic, wfile |-> <<>>]

\* the match of Sed::execute on `command`, ne being what self.need_execute returns
\* where the arm calls it
ExecuteVerb(command, ne) ==
    LET ps == pattern_space
        hs == hold_space
        as == after_space
        hr == has_replacements_since_t
        Same(instr) == Outcome(ne.cmd, ps, hs, as, hr, quiet, <<>>, instr, <<>>, FALSE)
        verb == command.verb
    IN IF verb = "IgnoreComment"
       THEN {Outcome(command, ps, hs, as, hr, TRUE, <<>>, "None", <<>>, FALSE)}
       ELSE IF verb = "BearBranchLabel"
       THEN {Outcome(command, ps, hs, as, hr, quiet, <<>>, "None", <<>>, FALSE)}
       ELSE IF ne.panic
       THEN {Outcome(ne.cmd, ps, hs, as, hr, quiet, <<>>, "None", <<>>, TRUE)}
       ELSE IF verb = "DeletePatternAndPrintText"
       THEN \* the loop over the address only ever does `need_execute &= true`
            IF ne.need
            THEN {Outcome(ne.cmd, <<>>, hs, as, hr, quiet, command.text, "None", <<>>, FALSE)}
            ELSE {Same("None")}
       ELSE IF ~ne.need
       THEN {Same("None")}
       ELSE CASE verb = "PrintTextAfter" ->
                   {Outcome(ne.cmd, ps, hs, as \o command.text, hr, quiet, <<>>, "None", <<>>, FALSE)}
              [] verb = "BranchToLabel" ->
                   {Outcome(ne.cmd, ps, hs, as, hr, quiet, <<>>, "Goto", command.label, FALSE)}
              [] verb = "DeletePattern" ->
                   IF command.to_first_line /\ Contains(ps, NL)
                   THEN {Outcome(ne.cmd, SkipWhileNL(ps), hs, as, hr, quiet, <<>>,
                                 "NotReadNext", <<>>, FALSE)}
                   ELSE {Outcome(ne.cmd, <<>>, hs, as, hr, quiet, <<>>, "Continue", <<>>, FALSE)}
              [] verb = "ReplacePatternWithHold" ->
                   {Outcome(ne.cmd, hs, hs, as, hr, quiet, <<>>, "None", <<>>, FALSE)}
              [] verb = "AppendHoldToPattern" ->
                   {Outcome(ne.cmd, ps \o <<NL>> \o hs, hs, as, hr, quiet, <<>>, "None", <<>>, FALSE)}
              [] verb = "ReplaceHoldWithPattern" ->
                   {Outcome(ne.cmd, ps, ps, as, hr, quiet, <<>>, "None", <<>>, FALSE)}
              [] verb = "AppendPatternToHold" ->
                   {Outcome(ne.cmd, ps, hs \o <<NL>> \o ps, as, hr, quiet, <<>>, "None", <<>>, FALSE)}
              [] verb = "PrintTextBefore" ->
                   {Outcome(ne.cmd, ps, hs, as, hr, quiet, command.text, "None", <<>>, FALSE)}
              [] verb = "PrintPatternAndReplaceWithNext" -> {Same("ReadNext")}
              [] verb = "AppendNextToPattern" -> {Same("AppendNext")}
              [] verb = "PrintPattern" ->
                   {Outcome(ne.cmd, ps, hs, as, hr, quiet,
                            (IF command.to_first_line THEN UpToFirstNL(ps) ELSE ps) \o <<NL>>,
                            "None", <<>>, FALSE)}
              [] verb = "Quit" -> {Same("Break")}
              [] verb = "Replace" ->
                   \* the Result of execute_replace is dropped; the flag is set regardless
                   {[Outcome(ne.cmd, r.ps, hs, as, TRUE, quiet, r.out, "None", <<>>, r.panic)
                       EXCEPT !.wfile = r.wfile] :
                      r \in ExecuteReplace(ps, command.re, command.replacement, command.flags)}
              [] verb = "Test" ->
                   {Outcome(ne.cmd, ps, hs, as, FALSE, quiet, <<>>,
                            IF hr THEN "Goto" ELSE "None", command.label, FALSE)}
              [] verb = "ExchangeSpaces" ->
                   {Outcome(ne.cmd, hs, ps, as, hr, quiet, <<>>, "None", <<>>, FALSE)}
              [] verb = "ReplaceCharSet" ->
                   {Outcome(ne.cmd, UnescapeNL(ReplaceCharSet(ps, command.string1, command.string2)),
                            hs, as, TRUE, quiet, <<>>, "None", <<>>, FALSE)}
              [] verb = "PrintStandard" ->
                   {Outcome(ne.cmd, ps, hs, as, hr, quiet,
                            IF ~quiet THEN Decimal(current_line + 1) \o <<NL>> ELSE <<>>,
                            "None", <<>>, FALSE)}
              [] OTHER -> {Same("None")}

\* Sed::execute(command_position) for command_position < script.len()
Execute(command_position) ==
    ExecuteVerb(script[command_position + 1],
                NeedExecute(script[command_position + 1], current_line, pattern_space))

(***************************************************************************)
(* Sed::process_line, Sed::process_input and Sed::sed.                     *)
(***************************************************************************)
CurrentFile == input_sources[src_idx]

\* Sed::read_line: the next line with its newline, or the empty string at end of input
AtEof == file_pos = Len(CurrentFile)
NextLine == CurrentFile[file_pos + 1] \o <<NL>>

\* a failed open that ends the run as a runtime error does
OnOpenErrorReturn == "error"

\* Sed::sed after File::open failed: `continue`, on to the next input source
OnOpenError == "sed"

\* Sed::sed: one iteration of the for loop up to the first read of process_input
OpenInput ==
    /\ pc = "sed"
    /\ IF src_idx > Len(input_sources)
       THEN /\ pc' = "done"
            /\ UNCHANGED <<pattern_space, hold_space, current_line, file_pos, src_idx, stderr>>
       ELSE IF ~openable[src_idx]
       THEN \* eprintln!("sed: read {input}: {err}"), then what follows the failed open
            /\ stderr' = Append(stderr, <<"read", src_idx>>)
            /\ src_idx' = src_idx + 1
            /\ pc' = OnOpenError
            /\ UNCHANGED <<pattern_space, hold_space, current_line, file_pos>>
       ELSE /\ pattern_space' = <<>>
            /\ hold_space' = <<>>
            /\ current_line' = 0
            /\ file_pos' = 0
            /\ pc' = "read"
            /\ UNCHANGED <<src_idx, stderr>>
    /\ UNCHANGED <<script, input_sources, quiet, after_space, has_replacements_since_t,
                   i, global_instruction, stdout, openable>>
    /\ UNCHANGED <<wfiles, parseVars, timeoutVars, awkVars, positionVars>>

\* the print!("\r") that ends Sed::process_input
InputTrailer == IF script /= <<>> /\ script[Len(script)].verb = "PrintFile" THEN <<"\r">> ELSE <<>>

\* Sed::process_input: the head of the loop, up to the first command of process_line
ReadLine ==
    /\ pc = "read"
    /\ IF AtEof
       THEN /\ pc' = "sed"
            /\ src_idx' = src_idx + 1
            /\ stdout' = stdout \o InputTrailer
            /\ UNCHANGED <<pattern_space, after_space, has_replacements_since_t, file_pos, i,
                           global_instruction>>
       ELSE /\ has_replacements_since_t' = FALSE
            /\ after_space' = <<>>
            /\ pattern_space' = CurrentFile[file_pos + 1]
            /\ file_pos' = file_pos + 1
            /\ i' = 0
            /\ global_instruction' = "None"
            /\ pc' = IF 0 < Len(script) THEN "exec" ELSE "end_cycle"
            /\ UNCHANGED <<src_idx, stdout>>
    /\ UNCHANGED <<script, input_sources, quiet, hold_space, current_line, openable, stderr>>
    /\ UNCHANGED <<wfiles, parseVars, timeoutVars, awkVars, positionVars>>

\* the match on the instruction in Sed::process_line, after execute returned outcome o:
\* [ps, i, file_pos, gi, exit], exit one of "next" (i += 1), "break", "return" (Ok(None)
\* before the final prints) and "error" (Err(NoLabel))
Interpret(o) ==
    LET R(ps, ni, fp, gi, exit) == [ps |-> ps, i |-> ni, file_pos |-> fp, gi |-> gi, exit |-> exit]
    IN CASE o.instr = "None" -> R(o.ps, i, file_pos, global_instruction, "next")
         [] o.instr = "Goto" ->
              IF o.label /= <<>>
              THEN LET label_position == LabelPosition(script, o.label)
                   IN IF label_position >= 0
                      THEN R(o.ps, label_position, file_pos, "None", "next")
                      ELSE R(o.ps, i, file_pos, "None", "error")
              ELSE R(o.ps, i, file_pos, "None", "break")
         [] o.instr = "Break" -> R(o.ps, i, file_pos, "Break", "break")
         [] o.instr = "Continue" -> R(o.ps, i, file_pos, "None", "break")
         [] o.instr = "NotReadNext" -> R(o.ps, 0, file_pos, "None", "next")
         [] o.instr = "AppendNext" ->
              IF AtEof
              THEN R(o.ps, i, file_pos, "None", "return")
              ELSE R(o.ps \o <<NL>> \o NextLine, i, file_pos + 1, "None", "next")
         [] o.instr = "ReadNext" ->
              IF AtEof
              THEN R(<<NL>>, i, file_pos, "None", "break")
              ELSE R(NextLine, i, file_pos + 1, "None", "next")

\* the state after one iteration of the while loop of Sed::process_line, in which
\* execute returned outcome o and the match on its instruction gave r
Iterate(o, r) ==
    /\ script' = [script EXCEPT ![i + 1] = o.cmd]
    /\ quiet' = o.quiet
    /\ hold_space' = o.hs
    /\ after_space' = o.as
    /\ has_replacements_since_t' = o.hr
    /\ stdout' = stdout \o o.out
    /\ wfiles' = AppendTo(wfiles, o.wfile, o.ps)
    \* Err(NoLabel) reaches main through Sed::sed: eprintln!("sed: {err}")
    /\ stderr' = IF r.exit = "error" THEN Append(stderr, <<"runtime", src_idx>>) ELSE stderr
    /\ pattern_space' = r.ps
    /\ file_pos' = r.file_pos
    /\ global_instruction' = r.gi
    /\ i' = IF r.exit = "next" THEN r.i + 1 ELSE r.i
    /\ pc' = CASE r.exit = "error" -> "error"
               [] r.exit = "return" -> "read"
               [] r.exit = "break" -> "end_cycle"
               [] r.exit = "next" -> IF r.i + 1 < Len(script) THEN "exec" ELSE "end_cycle"
    \* Ok(None) returned early: process_input goes on to the next line
    /\ current_line' = IF r.exit = "return" THEN current_line + 1 ELSE current_line

\* Sed::process_line: one iteration of the while loop
ExecuteCommand ==
    /\ pc = "exec"
    /\ i < Len(script)
    /\ \E o \in Execute(i) :
         IF o.panic
         THEN /\ pc' = "panic"
              /\ UNCHANGED <<script, quiet, pattern_space, hold_space, after_space,
                             current_line, has_replacements_since_t, file_pos, i,
                             global_instruction, stdout, stderr, wfiles>>
         ELSE Iterate(o, Interpret(o))
    /\ UNCHANGED <<input_sources, src_idx, openable>>
    /\ UNCHANGED <<parseVars, timeoutVars, awkVars, positionVars>>

\* what the end of Sed::process_line writes
CycleOutput ==
    (IF ~quiet
     THEN TrimEndCR(pattern_space) \o (IF after_space = <<>> THEN <<NL>> ELSE <<>>)
     ELSE <<>>)
    \o (IF after_space /= <<>> THEN after_space \o <<NL>> ELSE <<>>)

\* the end of Sed::process_line and the rest of the loop body of Sed::process_input
EndCycle ==
    /\ pc = "end_cycle"
    /\ IF global_instruction = "Break"
       THEN /\ stdout' = stdout \o CycleOutput \o InputTrailer
            /\ pc' = "sed"
            /\ src_idx' = src_idx + 1
            /\ UNCHANGED current_line
       ELSE /\ stdout' = stdout \o CycleOutput
            /\ current_line' = current_line + 1
            /\ pc' = "read"
            /\ UNCHANGED src_idx
    /\ UNCHANGED <<script, input_sources, quiet, pattern_space, hold_space, after_space,
                   has_replacements_since_t, file_pos, i, global_instruction, openable,
                   stderr>>
    /\ UNCHANGED <<wfiles, parseVars, timeoutVars, awkVars, positionVars>>

(***************************************************************************)
(* The scripts and inputs of the model.  Every script is one that          *)
(* Script::parse returns for the script text given beside it.              *)
(***************************************************************************)
MaxLines == 3       \* lines over all input sources
MaxFiles == 2       \* input sources
MaxAddr == 3        \* line numbers used in addresses
MaxLen == 4         \* length of the pattern spaces execute_replace is called on

A == <<"a">>
XA == <<"x", "a">>
LineSet == {A, XA}

RECURSIVE SeqsUpTo(_, _)
SeqsUpTo(S, n) ==
    IF n = 0 THEN {<<>>}
    ELSE LET shorter == SeqsUpTo(S, n - 1)
         IN shorter \cup {Append(q, e) : q \in {t \in shorter : Len(t) = n - 1}, e \in S}

RECURSIVE TotalLen(_)
TotalLen(ss) == IF ss = <<>> THEN 0 ELSE Len(Head(ss)) + TotalLen(Tail(ss))

Inputs ==
    {srcs \in SeqsUpTo(SeqsUpTo(LineSet, MaxLines), MaxFiles) :
        srcs /= <<>> /\ TotalLen(srcs) <= MaxLines}

ReX == <<Lit(<<"x">>)>>
ReA == <<Lit(<<"a">>)>>

PrintPattern(addr) == Command("PrintPattern", addr)
PrintFirstLine(addr) == [Command("PrintPattern", addr) EXCEPT !.to_first_line = TRUE]
DeletePattern(addr) == Command("DeletePattern", addr)
DeleteFirstLine(addr) == [Command("DeletePattern", addr) EXCEPT !.to_first_line = TRUE]
ReadNextCmd == Command("PrintPatternAndReplaceWithNext", NoAddress)
AppendNextCmd == Command("AppendNextToPattern", NoAddress)
BranchToLabel(addr, label) == [Command("BranchToLabel", addr) EXCEPT !.label = label]
Test(addr, label) == [Command("Test", addr) EXCEPT !.label = label]
BearBranchLabel(label) == [Command("BearBranchLabel", NoAddress) EXCEPT !.label = label]
Replace(addr, re, replacement, flags) ==
    [Command("Replace", addr) EXCEPT !.re = re, !.replacement = replacement, !.flags = flags]
TextCmd(verb, addr, text) == [Command(verb, addr) EXCEPT !.text = text]
TransCmd(addr, string1, string2) ==
    [Command("ReplaceCharSet", addr) EXCEPT !.string1 = string1, !.string2 = string2]

End == <<"e", "n", "d">>
Nowhere == <<"n", "o">>          \* a label no command of any script bears

NumberPairs == {ab \in (1..MaxAddr) \X (1..MaxAddr) : ab[1] <= ab[2]}

Scripts ==
    \* "Np"
    {<<PrintPattern(Addr1(Number(n)))>> : n \in 1..MaxAddr}
    \* "n;Np"
    \cup {<<ReadNextCmd, PrintPattern(Addr1(Number(n)))>> : n \in 1..MaxAddr}
    \* "A,Bd"
    \cup {<<DeletePattern(Addr2(Number(ab[1]), Number(ab[2])))>> : ab \in NumberPairs}
    \* "A,Bp"
    \cup {<<PrintPattern(Addr2(Number(ab[1]), Number(ab[2])))>> : ab \in NumberPairs}
    \* "N;A,Bp"
    \cup {<<AppendNextCmd, PrintPattern(Addr2(Number(ab[1]), Number(ab[2])))>> : ab \in NumberPairs}
    \cup {
    \* "$p"
    <<PrintPattern(Addr1(Last))>>,
    \* "\,x,b end;s/x/y/;:end"
    <<BranchToLabel(Addr1(Pattern(ReX)), End), Replace(NoAddress, ReX, <<"y">>, <<>>),
      BearBranchLabel(End)>>,
    \* "b end;p;:end;s/a/b/"
    <<BranchToLabel(NoAddress, End), PrintPattern(NoAddress), BearBranchLabel(End),
      Replace(NoAddress, ReA, <<"b">>, <<>>)>>,
    \* "\,x,b;p"
    <<BranchToLabel(Addr1(Pattern(ReX)), <<>>), PrintPattern(NoAddress)>>,
    \* "s/x/y/;t end;s/a/b/;:end"
    <<Replace(NoAddress, ReX, <<"y">>, <<>>), Test(NoAddress, End),
      Replace(NoAddress, ReA, <<"b">>, <<>>), BearBranchLabel(End)>>,
    \* "s/x/y/;t;t;p"
    <<Replace(NoAddress, ReX, <<"y">>, <<>>), Test(NoAddress, <<>>), Test(NoAddress, <<>>),
      PrintPattern(NoAddress)>>,
    \* "t;p"
    <<Test(NoAddress, <<>>), PrintPattern(NoAddress)>>,
    \* "#n", two newlines, "2p"
    <<Command("IgnoreComment", NoAddress), PrintPattern(Addr1(Number(2)))>>,
    \* "H;x;G;h;g"
    <<Command("AppendPatternToHold", NoAddress), Command("ExchangeSpaces", NoAddress),
      Command("AppendHoldToPattern", NoAddress), Command("ReplaceHoldWithPattern", NoAddress),
      Command("ReplacePatternWithHold", NoAddress)>>,
    \* "a\t", a newline, ";;2q"
    <<TextCmd("PrintTextAfter", NoAddress, <<"t">>), Command("Quit", Addr1(Number(2)))>>,
    \* "i\t", a newline, ";;1,2c\u"
    <<TextCmd("PrintTextBefore", NoAddress, <<"t">>),
      TextCmd("DeletePatternAndPrintText", Addr2(Number(1), Number(2)), <<"u">>)>>,
    \* "y/xa/ax/;="
    <<TransCmd(NoAddress, <<"x", "a">>, <<"a", "x">>), Command("PrintStandard", NoAddress)>>,
    \* "N;P"
    <<AppendNextCmd, PrintFirstLine(NoAddress)>>,
    \* "2N"
    <<Command("AppendNextToPattern", Addr1(Number(2)))>>,
    \* "N;2D"
    <<AppendNextCmd, DeleteFirstLine(Addr1(Number(2)))>>,
    \* "N;D"
    <<AppendNextCmd, DeleteFirstLine(NoAddress)>>,
    \* "N;h;D"
    <<AppendNextCmd, Command("ReplaceHoldWithPattern", NoAddress), DeleteFirstLine(NoAddress)>>,
    \* "2b nowhere;p"
    <<BranchToLabel(Addr1(Number(2)), Nowhere), PrintPattern(NoAddress)>>,
    \* "s/x/y/;t nowhere;p"
    <<Replace(NoAddress, ReX, <<"y">>, <<>>), Test(NoAddress, Nowhere), PrintPattern(NoAddress)>>,
    \* "\,x,,\,x,p"
    <<PrintPattern(Addr2(Pattern(ReX), Pattern(ReX)))>>,
    \* "\,x,,\,a,p"
    <<PrintPattern(Addr2(Pattern(ReX), Pattern(ReA)))>>,
    \* "\,x,,2p"
    <<PrintPattern(Addr2(Pattern(ReX), Number(2)))>>,
    \* "2c\u", a newline, ";;p"
    <<TextCmd("DeletePatternAndPrintText", Addr1(Number(2)), <<"u">>), PrintPattern(NoAddress)>>,
    \* "1h;G"
    <<Command("ReplaceHoldWithPattern", Addr1(Number(1))),
      Command("AppendHoldToPattern", NoAddress)>>
    }

Init ==
    /\ script \in Scripts
    /\ input_sources \in Inputs
    \* a source that cannot be opened has no lines to give
    /\ openable \in {o \in [1..Len(input_sources) -> BOOLEAN] :
                        \A k \in 1..Len(input_sources) : ~o[k] => input_sources[k] = <<>>}
    /\ stderr = <<>>
    /\ quiet \in BOOLEAN
    /\ pattern_space = <<>>
    /\ hold_space = <<>>
    /\ after_space = <<>>
    /\ current_line = 0
    /\ has_replacements_since_t = FALSE
    /\ src_idx = 1
    /\ file_pos = 0
    /\ i = 0
    /\ global_instruction = "None"
    /\ stdout = <<>>
    /\ wfiles = <<>>
    /\ pc = "sed"
    /\ NotParsing
    /\ NoTimeout
    /\ NoAwk
    /\ NoPosition

Next == OpenInput \/ ReadLine \/ ExecuteCommand \/ EndCycle

Spec == Init /\ [][Next]_vars

(***************************************************************************)
(* execute_replace called on its own, as a unit test calls it: the         *)
(* pattern space, pattern, replacement and flags are drawn from bounded   *)
(* sets and the one action applies the function.                           *)
(***************************************************************************)
MaxNth == 3         \* the occurrence numbers of the s commands

ReplaceAlphabet == {"a", "b", NL}
ReplaceSpaces == SeqsUpTo(ReplaceAlphabet, MaxLen)

ReAA == <<Lit(<<"a", "a">>)>>
ReAB == <<Lit(<<"a", "b">>)>>
ReGroupA == <<Grp(<<"a">>)>>
ReGroupAB == <<Grp(<<"a">>), Grp(<<"b">>)>>          \* \(a\)\(b\)
ReplaceRegexes == {ReA, ReAA, ReAB, ReGroupA, ReGroupAB}

TemplateC == <<"c">>
TemplateAmp == <<"&", "c">>
TemplateRefs == <<"&", "-", BS, "2", "-", BS, "1">>     \* &-\2-\1
ReplaceTemplates == {<<>>, TemplateC, TemplateAmp, TemplateRefs}

ReplaceFlagLists ==
    {<<>>, <<ReplaceAll>>, <<PrintPatternIfReplace>>, <<ReplaceAll, PrintPatternIfReplace>>,
     <<AppendToIfReplace(FileF)>>, <<ReplaceAll, AppendToIfReplace(FileF)>>}
    \cup {<<ReplaceNth(n)>> : n \in 0..MaxNth}

InitReplace ==
    /\ \E re \in ReplaceRegexes, t \in ReplaceTemplates, f \in ReplaceFlagLists :
         script = <<Replace(NoAddress, re, t, f)>>
    /\ pattern_space \in ReplaceSpaces
    /\ input_sources = <<>>
    /\ openable = <<>>
    /\ stderr = <<>>
    /\ quiet = FALSE
    /\ hold_space = <<>>
    /\ after_space = <<>>
    /\ current_line = 0
    /\ has_replacements_since_t = FALSE
    /\ src_idx = 1
    /\ file_pos = 0
    /\ i = 0
    /\ global_instruction = "None"
    /\ stdout = <<>>
    /\ wfiles \in {<<>>, [path \in {FileF} |-> <<>>]}
    /\ pc = "call_execute_replace"
    /\ NotParsing
    /\ NoTimeout
    /\ NoAwk
    /\ NoPosition

\* execute_replace(&mut pattern_space, script[0], current_line)
CallExecuteReplace ==
    /\ pc = "call_execute_replace"
    /\ \E r \in ExecuteReplace(pattern_space, script[1].re, script[1].replacement, script[1].flags) :
         /\ pattern_space' = r.ps
         /\ stdout' = stdout \o r.out
         /\ wfiles' = AppendTo(wfiles, r.wfile, r.ps)
         /\ pc' = IF r.panic THEN "panic"
                  ELSE IF OpenFails(wfiles, r.wfile) THEN "failed"
                  ELSE "returned"
    /\ UNCHANGED <<script, input_sources, quiet, hold_space, after_space, current_line,
                   has_replacements_since_t, src_idx, file_pos, i, global_instruction,
                   openable, stderr>>
    /\ UNCHANGED <<parseVars, timeoutVars, awkVars, positionVars>>

NextReplace == CallExecuteReplace

SpecReplace == InitReplace /\ [][NextReplace]_vars

(***************************************************************************)
(* The claims.  The definitions named Ref... state what a claim expects,   *)
(* computed without the operators above.                                   *)
(***************************************************************************)
\* the command Sed::process_line is about to hand to Sed::execute
AtCommand == pc = "exec" /\ i < Len(script)
CurrentCommand == script[i + 1]

\* whether the address of the current command lets it execute now
Applies == NeedExecute(CurrentCommand, current_line, pattern_space).need

IsNumber(cmd, k, l) == Len(cmd.addr) = 1 /\ Len(cmd.addr[1].limits) = l
                       /\ cmd.addr[1].limits[k].kind = "Number"

\* C1: a command whose address is the single line number N executes in a cycle
\* iff the 1-based number of the current input line (the count of lines read
\* from the current source) equals N.
C1_SingleNumberFiresOnItsLine ==
    (AtCommand /\ CurrentCommand.verb \in AddressedVerbs /\ IsNumber(CurrentCommand, 1, 1))
        => (Applies <=> file_pos = CurrentCommand.addr[1].limits[1].n)

\* C2: with a single input stream, a command addressed by the numeric range A,B
\* (1 <= A <= B) executes on line n iff A <= n <= B.
C2_NumericRangeFiresInside ==
    (/\ AtCommand
     /\ Len(input_sources) = 1
     /\ CurrentCommand.verb \in AddressedVerbs
     /\ IsNumber(CurrentCommand, 1, 2) /\ IsNumber(CurrentCommand, 2, 2))
        => (Applies <=> (/\ CurrentCommand.addr[1].limits[1].n <= file_pos
                         /\ file_pos <= CurrentCommand.addr[1].limits[2].n))

\* C3: a command addressed by the single token $ executes only in the cycle of
\* the final line of the current input stream.
C3_LastFiresOnlyOnFinalLine ==
    (/\ AtCommand
     /\ CurrentCommand.verb \in AddressedVerbs
     /\ Len(CurrentCommand.addr) = 1
     /\ Len(CurrentCommand.addr[1].limits) = 1
     /\ CurrentCommand.addr[1].limits[1].kind = "Last"
     /\ Applies)
        => file_pos = Len(CurrentFile)

\* the cycle is ending because d (or D on a pattern space without newline) executed
EndedByDelete ==
    pc = "end_cycle" /\ i < Len(script) /\ CurrentCommand.verb = "DeletePattern"

IsPrefix(p, q) == Len(p) <= Len(q) /\ SubSeq(q, 1, Len(p)) = p

\* C4: a cycle in which d executes writes nothing for that line; a cycle that ends
\* without d, quiet off, writes the pattern space once at its end; and 1,2d on three
\* lines writes exactly the third.
C4_DeleteWritesNothing ==
    /\ EndedByDelete => CycleOutput = <<>>
    /\ (pc = "end_cycle" /\ ~EndedByDelete /\ ~quiet) => IsPrefix(pattern_space, CycleOutput)
    /\ (/\ pc = "done" /\ ~quiet
        /\ script = <<DeletePattern(Addr2(Number(1), Number(2)))>>
        /\ Len(input_sources) = 1 /\ Len(input_sources[1]) = 3)
           => stdout = input_sources[1][3] \o <<NL>>

(***************************************************************************)
(* Reference semantics of substitution for the literal patterns of the     *)
(* model: a match is an occurrence of the pattern's text, the whole match  *)
(* is that text and group g is the text of the g-th group.                 *)
(***************************************************************************)
\* the offset of the leftmost occurrence of text in s at or after from, or -1
RefFind(s, text, from) ==
    LET hits == {k \in from..(Len(s) - Len(text)) : SubSeq(s, k + 1, k + Len(text)) = text}
    IN IF hits = {} THEN 0 - 1 ELSE Min(hits)

\* the offsets of the leftmost-first non-overlapping matches at or after from
RECURSIVE RefMatches(_, _, _)
RefMatches(s, text, from) ==
    LET k == RefFind(s, text, from)
    IN IF k < 0 THEN <<>> ELSE <<k>> \o RefMatches(s, text, k + Len(text))

RefDigit(ch) == (CHOOSE d \in 1..10 : DigitChars[d] = ch) - 1

RefGroup(re, g) ==
    IF g = 0 THEN RegexText(re)
    ELSE IF g <= Len(GroupParts(re)) THEN re[GroupParts(re)[g]].text ELSE <<>>

\* the template with & and \digit expanded
RECURSIVE RefExpand(_, _)
RefExpand(template, re) ==
    IF template = <<>> THEN <<>>
    ELSE IF Head(template) = "&" THEN RegexText(re) \o RefExpand(Tail(template), re)
    ELSE IF Head(template) = BS /\ Len(template) >= 2
    THEN (IF IsDigit(template[2]) THEN RefGroup(re, RefDigit(template[2])) ELSE <<template[2]>>)
         \o RefExpand(SubSeq(template, 3, Len(template)), re)
    ELSE <<Head(template)>> \o RefExpand(Tail(template), re)

\* s with the match at offset k replaced
RefReplaceAt(s, re, template, k) ==
    SubSeq(s, 1, k) \o RefExpand(template, re) \o SubSeq(s, k + Len(RegexText(re)) + 1, Len(s))

\* s with the matches at the given offsets replaced, last first
RECURSIVE RefReplaceEach(_, _, _, _)
RefReplaceEach(s, re, template, offsets) ==
    IF offsets = <<>> THEN s
    ELSE RefReplaceEach(RefReplaceAt(s, re, template, offsets[Len(offsets)]), re, template,
                        SubSeq(offsets, 1, Len(offsets) - 1))

Calling == pc = "call_execute_replace"
CallRe == script[1].re
CallTemplate == script[1].replacement
CallFlags == script[1].flags
CallMatches == RefMatches(pattern_space, RegexText(CallRe), 0)
PlainFlags == ~HasFlag(CallFlags, "ReplaceNth") /\ ~HasFlag(CallFlags, "ReplaceAll")

\* every \digit of the template names a group of the pattern
RefsExist(template, re) ==
    \A k \in 1..(Len(template) - 1) :
        (template[k] = BS /\ IsDigit(template[k + 1]) /\ (k = 1 \/ template[k - 1] /= BS))
            => RefDigit(template[k + 1]) <= Len(GroupParts(re))

\* a call the claims on s speak about: a pattern space of one line and a template
\* whose group references exist
PlainCall == Calling /\ ~Contains(pattern_space, NL) /\ RefsExist(CallTemplate, CallRe)

\* C5: s without an occurrence number and without g, on a pattern space without
\* newline, replaces exactly the leftmost match and leaves every other character
\* unchanged; without a match the pattern space is unchanged.
C5_FirstMatchOnly ==
    [][(PlainCall /\ PlainFlags)
         => /\ pc' = "returned"
            /\ pattern_space' = IF CallMatches = <<>> THEN pattern_space
                                ELSE RefReplaceAt(pattern_space, CallRe, CallTemplate, CallMatches[1])
      ]_vars

\* C6: s with g replaces every match of the leftmost-first non-overlapping match
\* sequence over the original pattern space (stated for patterns without groups,
\* whose substitution does not depend on group interpolation).
C6_GlobalReplacesNonOverlapping ==
    [][(PlainCall /\ HasFlag(CallFlags, "ReplaceAll") /\ GroupParts(CallRe) = <<>>)
         => /\ pc' = "returned"
            /\ pattern_space' = RefReplaceEach(pattern_space, CallRe, CallTemplate, CallMatches)
      ]_vars

\* C7: s with occurrence number n replaces only the n-th match when there are at
\* least n matches, and otherwise completes normally leaving the pattern space
\* unchanged (stated for patterns without groups).
C7_NthOrNoOp ==
    [][(PlainCall /\ HasFlag(CallFlags, "ReplaceNth") /\ FirstNth(CallFlags) >= 1
        /\ GroupParts(CallRe) = <<>>)
         => /\ pc' = "returned"
            /\ pattern_space' = IF Len(CallMatches) >= FirstNth(CallFlags)
                                THEN RefReplaceAt(pattern_space, CallRe, CallTemplate,
                                                  CallMatches[FirstNth(CallFlags)])
                                ELSE pattern_space
      ]_vars

\* C8: when the pattern has groups that take part in the match, the matched span is
\* replaced by the template with & expanded to the whole match and each group
\* reference to that group's text: \(a\)\(b\) on ab with &-\2-\1 gives ab-b-a.
C8_GroupsAreInterpolated ==
    [][(PlainCall /\ PlainFlags /\ GroupParts(CallRe) /= <<>> /\ CallMatches /= <<>>)
         => pattern_space' = RefReplaceAt(pattern_space, CallRe, CallTemplate, CallMatches[1])
      ]_vars

\* the 1-based positions of the label definitions :label in the script
RefLabelAt(label) ==
    {k \in 1..Len(script) : script[k].verb = "BearBranchLabel" /\ script[k].label = label}

\* the current command is a b that executes, or a t that executes and branches
BranchTaken ==
    /\ AtCommand
    /\ Applies
    /\ \/ CurrentCommand.verb = "BranchToLabel"
       \/ CurrentCommand.verb = "Test" /\ has_replacements_since_t

\* C9: when b, or a t that branches, names a label L defined once, the next command
\* executed is the one following :L (0-based index = 1-based position of :L) and no
\* command in between runs; without a label no further command runs in the cycle,
\* and the end of the cycle still writes the pattern space unless quiet.
C9_BranchLandsAfterLabel ==
    [][/\ (BranchTaken /\ Cardinality(RefLabelAt(CurrentCommand.label)) = 1)
            => LET k == CHOOSE p \in RefLabelAt(CurrentCommand.label) : TRUE
               IN /\ i' = k
                  /\ pc' = IF k < Len(script) THEN "exec" ELSE "end_cycle"
                  /\ UNCHANGED <<pattern_space, hold_space, stdout, file_pos, current_line>>
       /\ (BranchTaken /\ CurrentCommand.label = <<>>)
            => /\ pc' = "end_cycle"
               /\ UNCHANGED <<pattern_space, hold_space, stdout, file_pos, current_line>>
       /\ (pc = "end_cycle" /\ ~quiet) => IsPrefix(stdout \o pattern_space, stdout')
      ]_vars

\* b end;p;:end;s/a/b/ has jumped over p to the s after :end, nothing written
C9_Witness ==
    /\ Len(script) = 4
    /\ script[1].verb = "BranchToLabel" /\ script[1].label = End
    /\ script[3].verb = "BearBranchLabel" /\ script[3].label = End
    /\ pc = "exec" /\ i = 3 /\ file_pos = 1
    /\ stdout = <<>>

\* the current command is an s that executes
ReplaceRuns == AtCommand /\ CurrentCommand.verb = "Replace" /\ Applies

\* C10: t branches iff a substitution was actually made since the last line was read
\* or the last t ran: an s that matches sets the condition, an s whose pattern does
\* not match leaves it as it was, reading a line and running t clear it, and a t
\* that finds it clear falls through.
C10_TestFollowsSubstitutions ==
    [][/\ (ReplaceRuns /\ RefFind(pattern_space, RegexText(CurrentCommand.re), 0) < 0)
            => has_replacements_since_t' = has_replacements_since_t
       /\ (ReplaceRuns /\ RefFind(pattern_space, RegexText(CurrentCommand.re), 0) >= 0
           /\ pc' /= "panic")
            => has_replacements_since_t'
       /\ (pc = "read" /\ pc' \in {"exec", "end_cycle"}) => ~has_replacements_since_t'
       /\ (AtCommand /\ CurrentCommand.verb = "Test" /\ Applies)
            => /\ ~has_replacements_since_t'
               /\ ~has_replacements_since_t
                    => /\ i' = i + 1
                       /\ pc' = IF i + 1 < Len(script) THEN "exec" ELSE "end_cycle"
      ]_vars

\* the end-of-cycle output the claims expect: the pattern space unless quiet, then
\* the append buffer
RefWritesPending(before, after) ==
    /\ quiet \/ IsPrefix(before \o pattern_space, after)
    /\ after_space = <<>> \/
         (/\ Len(after) >= Len(before) + Len(after_space)
          /\ \E k \in Len(before)..(Len(after) - Len(after_space)) :
               SubSeq(after, k + 1, k + Len(after_space)) = after_space)

\* q has executed in the cycle that is ending, or has ended
QuitPending == global_instruction = "Break"

\* C11: after q executes, the pending output of the cycle is written (pattern space
\* unless quiet, then the append buffer) and no further line is read or processed,
\* from the current input source or from any later one.
C11_QuitStopsAllInput ==
    [][/\ (pc = "end_cycle" /\ QuitPending)
            => RefWritesPending(stdout, stdout') /\ pc' \in {"sed", "done"}
       /\ (pc = "sed" /\ QuitPending) => pc' = "done"
      ]_vars

\* the current command is the given verb and its address lets it execute
Runs(verb) == AtCommand /\ CurrentCommand.verb = verb /\ Applies

\* where process_line is after the command at index k - 1 when nothing branches
RefAt(k) == IF k < Len(script) THEN "exec" ELSE "end_cycle"

\* C12: when n executes with quiet off and a next line exists, the pattern space is
\* written, then replaced by the next input line without its newline, and the
\* command after n runs next in the same cycle.
C12_NextPrintsThenLoads ==
    [][(Runs("PrintPatternAndReplaceWithNext") /\ ~quiet /\ ~AtEof)
         => /\ stdout' = stdout \o pattern_space \o <<NL>>
            /\ pattern_space' = CurrentFile[file_pos + 1]
            /\ file_pos' = file_pos + 1
            /\ i' = i + 1
            /\ pc' = RefAt(i + 1)
      ]_vars

\* C13: when N executes and no next line exists, no error is raised and the cycle
\* ends with its pending output written: the pattern space unless quiet, and the
\* append buffer.
C13_AppendNextAtEndFlushes ==
    [][(AtCommand /\ CurrentCommand.verb = "AppendNextToPattern" /\ AtEof)
         => /\ pc' \notin {"error", "panic"}
            /\ \/ /\ pc' = "end_cycle"
                  /\ UNCHANGED <<pattern_space, after_space, stdout>>
               \/ RefWritesPending(stdout, stdout') /\ (quiet /\ after_space = <<>> => pc' /= "exec")
      ]_vars

\* the text after the first newline of s
RefAfterFirstNL(s) ==
    LET k == CHOOSE j \in 1..Len(s) : s[j] = NL /\ \A h \in 1..(j - 1) : s[h] /= NL
    IN SubSeq(s, k + 1, Len(s))

\* C14: D on a pattern space with a newline removes the text up to and including the
\* first newline and re-enters the cycle at command index 0 without reading a line;
\* without a newline D does what d does.
C14_DeleteFirstLineRestarts ==
    [][(Runs("DeletePattern") /\ CurrentCommand.to_first_line)
         => IF Contains(pattern_space, NL)
            THEN /\ pattern_space' = RefAfterFirstNL(pattern_space)
                 /\ i' = 0
                 /\ pc' = "exec"
                 /\ UNCHANGED <<file_pos, stdout>>
            ELSE /\ pattern_space' = <<>>
                 /\ pc' = "end_cycle"
                 /\ UNCHANGED <<file_pos, stdout>>
      ]_vars

\* c at a command whose address holds only line numbers, in a cycle where the line
\* number is the count of lines read from the first input source
ChangeAtNumbers ==
    /\ AtCommand
    /\ CurrentCommand.verb = "DeletePatternAndPrintText"
    /\ src_idx = 1 /\ file_pos = current_line + 1
    /\ Len(CurrentCommand.addr) <= 1
    /\ \A r \in 1..Len(CurrentCommand.addr) :
         \A k \in 1..Len(CurrentCommand.addr[r].limits) :
            CurrentCommand.addr[r].limits[k].kind = "Number"

\* whether the line is selected by the address of c, and whether c writes its text on it
RefChangeSelects ==
    LET limits == IF CurrentCommand.addr = NoAddress THEN <<>> ELSE CurrentCommand.addr[1].limits
    IN CASE Len(limits) = 0 -> TRUE
         [] Len(limits) = 1 -> file_pos = limits[1].n
         [] Len(limits) = 2 -> limits[1].n <= file_pos /\ file_pos <= limits[2].n
RefChangeWrites ==
    LET limits == IF CurrentCommand.addr = NoAddress THEN <<>> ELSE CurrentCommand.addr[1].limits
    IN RefChangeSelects /\ (Len(limits) = 2 => file_pos = limits[2].n)

\* C15: c deletes the pattern space and, with a 0- or 1-token address or on the
\* closing line of a range (and on no other line of it), writes its text; no later
\* command of the script runs in that cycle.
C15_ChangeEndsCycle ==
    [][ChangeAtNumbers
         => IF RefChangeSelects
            THEN /\ pattern_space' = <<>>
                 /\ stdout' = stdout \o (IF RefChangeWrites THEN CurrentCommand.text ELSE <<>>)
                 /\ pc' /= "exec"
            ELSE /\ UNCHANGED <<pattern_space, stdout>>
                 /\ i' = i + 1
      ]_vars

\* whether an address token selects line number n with text line
RefTokenHit(token, n, line) ==
    CASE token.kind = "Number" -> token.n = n
      [] token.kind = "Pattern" -> RefFind(line, RegexText(token.re), 0) >= 0
      [] OTHER -> FALSE

\* whether the range start,end is still open after the given lines
RECURSIVE RefRangeOpen(_, _, _)
RefRangeOpen(lines, start, end) ==
    IF lines = <<>> THEN FALSE
    ELSE LET n == Len(lines)
             before == RefRangeOpen(SubSeq(lines, 1, n - 1), start, end)
         IN (before \/ RefTokenHit(start, n, lines[n])) /\ ~RefTokenHit(end, n, lines[n])

\* whether a command addressed start,end executes on the last of the given lines
RefRangeFires(lines, start, end) ==
    LET n == Len(lines)
    IN RefRangeOpen(SubSeq(lines, 1, n - 1), start, end) \/ RefTokenHit(start, n, lines[n])

\* the only command of the script is being evaluated on a line of the first input
\* source that has lines
OnlyCommandFirstSource ==
    /\ AtCommand
    /\ Len(script) = 1
    /\ CurrentCommand.verb \in AddressedVerbs
    /\ \A k \in 1..(src_idx - 1) : input_sources[k] = <<>>

\* C16: a range whose start is a regex is open from the line where the start matches
\* through the line where the end matches, then closes; once closed it is evaluated
\* afresh, so a later line matching the start opens it again and the command executes.
C16_RegexRangeReopens ==
    (/\ OnlyCommandFirstSource
     /\ Len(CurrentCommand.addr) = 1
     /\ Len(CurrentCommand.addr[1].limits) = 2
     /\ CurrentCommand.addr[1].limits[1].kind = "Pattern")
        => /\ ~NeedExecute(CurrentCommand, current_line, pattern_space).panic
           /\ Applies <=> RefRangeFires(SubSeq(CurrentFile, 1, file_pos),
                                        CurrentCommand.addr[1].limits[1],
                                        CurrentCommand.addr[1].limits[2])

\* C17: the range state of every address is reset when a new input source begins: a
\* numeric range A,B executes on lines A..B of every input source.
C17_RangeStateResetPerSource ==
    /\ (pc = "read" /\ file_pos = 0)
          => \A c \in 1..Len(script) : \A r \in 1..Len(script[c].addr) :
                Len(script[c].addr[r].limits) = 2
                    => /\ script[c].addr[r].passed = <<FALSE, FALSE>>
                       /\ script[c].addr[r].on_limits = <<FALSE, FALSE>>
    /\ (/\ AtCommand /\ Len(script) = 1
        /\ CurrentCommand.verb \in AddressedVerbs
        /\ IsNumber(CurrentCommand, 1, 2) /\ IsNumber(CurrentCommand, 2, 2))
          => (Applies <=> (/\ CurrentCommand.addr[1].limits[1].n <= file_pos
                           /\ file_pos <= CurrentCommand.addr[1].limits[2].n))

\* C18: the hold space is preserved when processing moves from one input source to
\* the next.
C18_HoldSpaceSurvivesSources ==
    [][pc = "sed" => hold_space' = hold_space]_vars

C20_UnopenableInputSkipped ==
    [][/\ (pc = "sed" /\ src_idx <= Len(input_sources) /\ ~openable[src_idx])
            => /\ Len(stderr') = Len(stderr) + 1
               /\ src_idx' = src_idx + 1
               /\ pc' = "sed"
               /\ UNCHANGED <<stdout, script, hold_space>>
       /\ (pc = "sed" /\ src_idx <= Len(input_sources) /\ openable[src_idx])
            => pc' = "read" /\ src_idx' = src_idx /\ file_pos' = 0
       /\ pc' = "error" => pc = "exec"
      ]_vars

\* the first source could not be opened, the second was processed to the end
C20_Witness ==
    /\ pc = "done"
    /\ Len(input_sources) = 2 /\ ~openable[1] /\ input_sources[2] /= <<>>
    /\ stderr = <<<<"read", 1>>>>
    /\ ~quiet /\ stdout /= <<>>

\* what y is to compute for one character: the character of string2 at the position
\* where ch stands in string1, or ch itself when string1 does not hold it
RefTranslate(ch, string1, string2) ==
    IF \E k \in 1..Len(string1) : string1[k] = ch
    THEN string2[CHOOSE k \in 1..Len(string1) :
                     string1[k] = ch /\ \A j \in 1..(k - 1) : string1[j] /= ch]
    ELSE ch

\* C21: y maps every character of the pattern space simultaneously: each character
\* found at position k of string1 becomes the character at position k of string2 and
\* every other character is unchanged, also when string2 holds characters of string1.
C21_TranslateIsSimultaneous ==
    [][Runs("ReplaceCharSet")
         => pattern_space' =
              [k \in 1..Len(pattern_space) |->
                 RefTranslate(pattern_space[k], CurrentCommand.string1, CurrentCommand.string2)]
      ]_vars

\* what the escape of embedded newlines is to give: a backslash directly before
\* every newline of s
RECURSIVE RefEscape(_)
RefEscape(s) ==
    IF s = <<>> THEN <<>>
    ELSE (IF Head(s) = NL THEN <<BS, NL>> ELSE <<Head(s)>>) \o RefEscape(Tail(s))

\* C30: after an s command every embedded newline of the pattern space is
\* immediately preceded by a backslash, inserted directly before the newline, and
\* the text between the newlines is unchanged (stated for a call whose pattern does
\* not match, where the text to escape is the pattern space itself).
C30_BackslashDirectlyBeforeNewline ==
    [][(Calling /\ CallMatches = <<>> /\ pc' = "returned")
         => pattern_space' = RefEscape(pattern_space)
      ]_vars

(***************************************************************************)
(* Script::parse and the functions it calls.  Offsets into `chars` are     *)
(* 0-based as in the source.  A function that returns Result gives a       *)
(* record whose field err is "" for Ok and the message for Err, together   *)
(* with the cursor it leaves in *i.                                        *)
(***************************************************************************)
\* chars.get(k): the character at offset k, "" for None
Get(chars, k) == IF k >= 0 /\ k < Len(chars) THEN chars[k + 1] ELSE ""

\* char::to_digit(10)
ToDigit(ch) == CHOOSE d \in 0..9 : DigitChars[d + 1] = ch

\* char::is_alphanumeric for the ASCII letters and digits
IsAlphanumeric(ch) ==
    \/ IsDigit(ch)
    \/ ch \in {"a", "b", "c", "d", "e", "f", "g", "h", "i", "j", "k", "l", "m", "n", "o",
               "p", "q", "r", "s", "t", "u", "v", "w", "x", "y", "z",
               "A", "B", "C", "D", "E", "F", "G", "H", "I", "J", "K", "L", "M", "N", "O",
               "P", "Q", "R", "S", "T", "U", "V", "W", "X", "Y", "Z"}

\* char::is_whitespace or char::is_control, other than ' ' and '\n'
IsOtherSpaceOrControl(ch) == ch \in {"\t", "\r", "\f"}

\* str::trim
RECURSIVE TrimStart(_)
TrimStart(s) == IF s /= <<>> /\ Head(s) \in {" ", NL, "\t", "\r", "\f"} THEN TrimStart(Tail(s)) ELSE s

RECURSIVE TrimEnd(_)
TrimEnd(s) ==
    IF s /= <<>> /\ s[Len(s)] \in {" ", NL, "\t", "\r", "\f"}
    THEN TrimEnd(SubSeq(s, 1, Len(s) - 1)) ELSE s

Trim(s) == TrimEnd(TrimStart(s))

\* str::replace("\\/", "/")
RECURSIVE UnescapeSlash(_)
UnescapeSlash(s) ==
    IF Len(s) < 2 THEN s
    ELSE IF s[1] = BS /\ s[2] = "/" THEN <<"/">> \o UnescapeSlash(SubSeq(s, 3, Len(s)))
    ELSE <<Head(s)>> \o UnescapeSlash(Tail(s))

\* str::replace("\\\\", "\\")
RECURSIVE UnescapeBackslash(_)
UnescapeBackslash(s) ==
    IF Len(s) < 2 THEN s
    ELSE IF s[1] = BS /\ s[2] = BS THEN <<BS>> \o UnescapeBackslash(SubSeq(s, 3, Len(s)))
    ELSE <<Head(s)>> \o UnescapeBackslash(Tail(s))

\* compile_regex for a pattern of ordinary characters: regcomp accepts it and the
\* regex matches the pattern's text
compile_regex(pattern) == <<Lit(UnescapeBackslash(pattern))>>

\* parse_number, called on a digit: [i, err, number]
RECURSIVE parse_number(_, _, _)
parse_number(chars, k, acc) ==
    IF Get(chars, k) = ""
    THEN [i |-> k, err |-> "script ended unexpectedly", number |-> acc]
    ELSE IF ~IsDigit(Get(chars, k))
    THEN [i |-> k, err |-> "", number |-> acc]
    ELSE parse_number(chars, k + 1, 10 * acc + ToDigit(Get(chars, k)))

Delimiter == [kind |-> "Delimiter", n |-> 0, re |-> <<>>]

\* the loop of parse_pattern_token that looks for the closing splitter from
\* offset j; -1 for None
RECURSIVE NextSplitter(_, _, _)
NextSplitter(chars, splitter, j) ==
    IF ~(j < Len(chars)) THEN -1
    ELSE IF Get(chars, j) = splitter /\ ~(Get(chars, j - 1) = BS /\ splitter = "/") THEN j
    ELSE NextSplitter(chars, splitter, j + 1)

\* parse_pattern_token with the cursor on the backslash: [i, err, token]
parse_pattern_token(chars, k) ==
    LET splitter == Get(chars, k + 1)
        next_position == NextSplitter(chars, splitter, k + 2)
        raw == Slice(chars, k + 2, next_position)
        pattern == IF splitter = "/" THEN UnescapeSlash(raw) ELSE raw
        Fail(message) == [i |-> k + 1, err |-> message, token |-> Last]
    IN  IF splitter = "" THEN Fail("unterminated address regex")
        ELSE IF splitter \in {BS, NL} THEN Fail("pattern spliter is")
        ELSE IF next_position < 0 THEN Fail("unterminated address regex")
        ELSE IF \/ pattern = <<BS>>
                \/ Contains(pattern, NL)
                \/ \E w \in 1..(Len(pattern) - 1) :
                     pattern[w] = BS /\ pattern[w + 1] \notin {"(", ")", ".", "*", "$", "^"}
        THEN Fail("pattern can't consist more than 1 line")
        ELSE [i |-> next_position, err |-> "", token |-> Pattern(compile_regex(pattern))]

\* to_address_tokens: [i, err, tokens]
RECURSIVE AddressTokensFrom(_, _, _)
AddressTokensFrom(chars, k, tokens) ==
    LET ch == Get(chars, k)
    IN  IF ch = ""
        THEN [i |-> k, err |-> "script ended unexpectedly", tokens |-> tokens]
        ELSE IF IsDigit(ch)
        THEN LET n == parse_number(chars, k, 0)
             IN  IF n.err /= "" THEN [i |-> n.i, err |-> n.err, tokens |-> tokens]
                 ELSE AddressTokensFrom(chars, n.i, Append(tokens, Number(n.number)))
        ELSE IF ch = BS
        THEN LET t == parse_pattern_token(chars, k)
             IN  IF t.err /= "" THEN [i |-> t.i, err |-> t.err, tokens |-> tokens]
                 ELSE AddressTokensFrom(chars, t.i + 1, Append(tokens, t.token))
        ELSE IF ch = "$" THEN AddressTokensFrom(chars, k + 1, Append(tokens, Last))
        ELSE IF ch = "," THEN AddressTokensFrom(chars, k + 1, Append(tokens, Delimiter))
        ELSE IF ch = " " THEN AddressTokensFrom(chars, k + 1, tokens)
        ELSE [i |-> IF k > 0 THEN k - 1 ELSE 0, err |-> "", tokens |-> tokens]

to_address_tokens(chars, k) == AddressTokensFrom(chars, k, <<>>)

NotDelimiter(token) == token.kind /= "Delimiter"

\* AddressRange::new and the checks of tokens_to_address: [err, address]
tokens_to_address(tokens) ==
    LET limits == SelectSeq(tokens, NotDelimiter)
        Fail(message) == [err |-> message, address |-> NoAddress]
    IN  IF \/ \E k \in 1..Len(tokens) : k % 2 = 0 /\ tokens[k].kind /= "Delimiter"
           \/ (tokens /= <<>> /\ tokens[Len(tokens)].kind = "Delimiter")
        THEN Fail("address bound can be only one pattern, number or '$'")
        ELSE IF Len(limits) > 2 THEN Fail("address isn't empty, position or range")
        ELSE IF limits = <<>> THEN [err |-> "", address |-> NoAddress]
        ELSE IF /\ Len(limits) = 2
                /\ limits[1].kind = "Number" /\ limits[2].kind = "Number"
                /\ limits[1].n > limits[2].n
        THEN Fail("bottom bound bigger than top bound in address")
        ELSE IF \E k \in 1..Len(limits) : limits[k] = Number(0)
        THEN Fail("address lower bound must be bigger than 0")
        ELSE [err |-> "", address |-> <<AddressRange(limits)>>]

\* parse_address: [i, err, address]
parse_address(chars, k) ==
    LET t == to_address_tokens(chars, k)
        a == tokens_to_address(t.tokens)
    IN  IF t.err /= "" THEN [i |-> t.i, err |-> t.err, address |-> NoAddress]
        ELSE [i |-> t.i, err |-> a.err, address |-> a.address]

\* the loop of parse_text_attribute that passes the spaces after the backslash
RECURSIVE SkipSpaces(_, _)
SkipSpaces(chars, k) == IF Get(chars, k) = " " THEN SkipSpaces(chars, k + 1) ELSE k

\* the loop of parse_text_attribute that collects the text: [i, text]
RECURSIVE ReadText(_, _, _)
ReadText(chars, k, text) ==
    IF Get(chars, k) = "" THEN [i |-> k, text |-> text]
    ELSE IF Get(chars, k) = NL THEN [i |-> k + 1, text |-> text]
    ELSE ReadText(chars, k + 1, Append(text, Get(chars, k)))

\* parse_text_attribute with the cursor on the verb: [i, err, text]; Ok(None) is
\* the empty text
parse_text_attribute(chars, k) ==
    IF Get(chars, k + 1) = ""
    THEN [i |-> k + 1, err |-> "script ended unexpectedly", text |-> <<>>]
    ELSE IF Get(chars, k + 1) /= BS
    THEN [i |-> k + 1, err |-> "text must be separated with '\\'", text |-> <<>>]
    ELSE LET r == ReadText(chars, SkipSpaces(chars, k + 2), <<>>)
         IN  [i |-> r.i, err |-> "", text |-> r.text]

\* the loop of parse_word_attribute: [i, label]
RECURSIVE ReadWord(_, _, _)
ReadWord(chars, k, label) ==
    IF Get(chars, k) = "" THEN [i |-> k, label |-> label]
    ELSE IF Get(chars, k) \in {NL, ";"} THEN [i |-> k - 1, label |-> label]
    ELSE ReadWord(chars, k + 1, Append(label, Get(chars, k)))

\* parse_word_attribute: [i, err, label]; Ok(None) is the empty label
parse_word_attribute(chars, k) ==
    LET r == ReadWord(chars, k, <<>>)
        label == Trim(r.label)
    IN  IF Contains(label, " ")
        THEN [i |-> r.i, err |-> "label can't contain ' '", label |-> <<>>]
        ELSE [i |-> r.i, err |-> "", label |-> label]

\* the loop of parse_path_attribute: [i, err, path]
RECURSIVE ReadPath(_, _, _)
ReadPath(chars, k, path) ==
    IF Get(chars, k) = "" THEN [i |-> k, err |-> "", path |-> path]
    ELSE IF Get(chars, k) \in {NL, ";"} THEN [i |-> k - 1, err |-> "", path |-> path]
    ELSE IF IsOtherSpaceOrControl(Get(chars, k))
    THEN [i |-> k, err |-> "path can contain only letters, numbers and some signs", path |-> path]
    ELSE ReadPath(chars, k + 1, Append(path, Get(chars, k)))

\* parse_path_attribute with the cursor on the verb or flag: [i, err, path], where
\* existing is the set of the paths that name a regular file
parse_path_attribute(chars, k, existing) ==
    LET r == ReadPath(chars, k + 1, <<>>)
        path == Trim(r.path)
    IN  IF r.err /= "" THEN [i |-> r.i, err |-> r.err, path |-> <<>>]
        ELSE IF path = <<>> THEN [i |-> r.i, err |-> "path is empty", path |-> <<>>]
        ELSE IF path \in existing THEN [i |-> r.i, err |-> "", path |-> path]
        ELSE [i |-> r.i, err |-> "can't find the file or it isn't file", path |-> <<>>]

\* Result::unwrap_or_default on the result of parse_path_attribute
PathOrDefault(r) == IF r.err = "" THEN r.path ELSE <<>>

\* the splitters of parse_replace_command: the offsets from j on where the splitter
\* stands, without those of a '/' that follows a backslash
RECURSIVE SplittersFrom(_, _, _)
SplittersFrom(chars, splitter, j) ==
    IF ~(j < Len(chars)) THEN <<>>
    ELSE (IF /\ Get(chars, j) = splitter
             /\ ~(splitter = "/" /\ Get(chars, IF j > 0 THEN j - 1 ELSE 0) = BS)
          THEN <<j>> ELSE <<>>) \o SplittersFrom(chars, splitter, j + 1)

\* parse_replace_command with the cursor on the verb: [i, err, pattern, replacement]
parse_replace_command(chars, k) ==
    LET splitter == Get(chars, k + 1)
        splitters == SplittersFrom(chars, splitter, k + 2)
        Fail(at, message) == [i |-> at, err |-> message, pattern |-> <<>>, replacement |-> <<>>]
    IN  IF splitter = "" THEN Fail(k + 1, "script ended unexpectedly")
        ELSE IF IsAlphanumeric(splitter) \/ splitter \in {" ", NL, ";", "{"}
        THEN Fail(k + 1, "splliter can't be number, newline or ';'")
        ELSE IF Len(splitters) < 2 THEN Fail(k + 2, "script ended unexpectedly")
        ELSE [i |-> splitters[2] + 1, err |-> "",
              pattern |-> UnescapeSlash(Slice(chars, k + 2, splitters[1])),
              replacement |-> UnescapeSlash(Slice(chars, splitters[1] + 1, splitters[2]))]

\* the loop of parse_replace_flags: [i, flags, w_start_position], -1 for None
RECURSIVE ReadFlags(_, _, _, _)
ReadFlags(chars, k, flags, w_start_position) ==
    LET ch == Get(chars, k)
    IN  IF ch = "" THEN [i |-> k, flags |-> flags, w_start_position |-> w_start_position]
        ELSE IF IsDigit(ch)
        THEN ReadFlags(chars, k + 1, Append(flags, ReplaceNth(ToDigit(ch))), w_start_position)
        ELSE IF ch = "g" THEN ReadFlags(chars, k + 1, Append(flags, ReplaceAll), w_start_position)
        ELSE IF ch = "p"
        THEN ReadFlags(chars, k + 1, Append(flags, PrintPatternIfReplace), w_start_position)
        ELSE IF ch = "w"
        THEN ReadFlags(chars, k + 1, Append(flags, AppendToIfReplace(<<>>)),
                       IF w_start_position < 0 THEN k ELSE w_start_position)
        ELSE [i |-> k - 1, flags |-> flags, w_start_position |-> w_start_position]

\* one value of flag_map
FlagCount(flags, kind) == Cardinality({j \in 1..Len(flags) : flags[j].kind = kind})

\* parse_replace_flags with the cursor after the last splitter: [i, err, panic, flags]
parse_replace_flags(chars, k, existing) ==
    LET r == ReadFlags(chars, k, <<>>, -1)
        has_w == HasFlag(r.flags, "AppendToIfReplace")
        is_w_last == r.flags[Len(r.flags)].kind = "AppendToIfReplace"
                     /\ FlagCount(r.flags, "AppendToIfReplace") = 1
        repeated == \E kind \in {"ReplaceNth", "ReplaceAll", "PrintPatternIfReplace", "AppendToIfReplace"} :
                        FlagCount(r.flags, kind) > 1
        p == parse_path_attribute(chars, r.w_start_position, existing)
        end == IF r.w_start_position < 0 THEN r.i ELSE p.i
        flags == IF r.w_start_position < 0 THEN r.flags
                 ELSE Append(r.flags, AppendToIfReplace(PathOrDefault(p)))
        Fail(at, message) == [i |-> at, err |-> message, panic |-> FALSE, flags |-> <<>>]
    IN  IF has_w /\ ~is_w_last THEN Fail(r.i, "w flag must be last flag")
        ELSE IF repeated /\ ~has_w
        THEN [i |-> r.i, err |-> "", panic |-> TRUE, flags |-> <<>>]   \* w_flag_position.unwrap() on None
        ELSE IF repeated THEN Fail(r.i, "flags can't be repeated")
        ELSE IF HasFlag(flags, "ReplaceNth") /\ HasFlag(flags, "ReplaceAll")
        THEN Fail(end, "n and g flags can't be used together")
        ELSE [i |-> end, err |-> "", panic |-> FALSE, flags |-> flags]

\* skip_comment with the cursor on the '#': the cursor it leaves
skip_comment(chars, k) ==
    IF \E p \in 0..(Len(chars) - k - 1) : Get(chars, k + p) = NL
    THEN Min({p \in 0..(Len(chars) - k - 1) : Get(chars, k + p) = NL})
    ELSE Len(chars)

\* the loop of parse_block over block_limits, from offset j at depth `depth`: the
\* offset of the '}' that closes the block, -1 when there is none
RECURSIVE BlockLimit(_, _, _)
BlockLimit(chars, j, depth) ==
    IF ~(j < Len(chars)) THEN -1
    ELSE IF Get(chars, j) = "{" THEN BlockLimit(chars, j + 1, depth + 1)
    ELSE IF Get(chars, j) = "}"
    THEN IF depth - 1 <= 0 THEN j ELSE BlockLimit(chars, j + 1, depth - 1)
    ELSE BlockLimit(chars, j + 1, depth)

Block(addr, commands) == [verb |-> "Block", addr |-> addr, commands |-> commands]
IgnoreComment == Command("IgnoreComment", NoAddress)

\* Command::PrintFile and Command::AppendPatternToFile: the path is kept in `text`
PathCmd(verb, addr, path) == [Command(verb, addr) EXCEPT !.text = path]

\* the max_len of Command::get_mut_address
MaxAddressLen(verb) ==
    IF verb \in {"PrintTextAfter", "PrintTextBefore", "Quit", "PrintFile", "PrintStandard"}
    THEN 1 ELSE 2

\* Command::check_address: TRUE for Ok
check_address(cmd) ==
    cmd.verb \in AddressedVerbs
        => \A r \in 1..Len(cmd.addr) : Len(cmd.addr[r].limits) <= MaxAddressLen(cmd.verb)

\* what flatten_commands does to one command of an addressed block
WithBlockAddress(cmd, block_address) ==
    IF cmd.verb \in AddressedVerbs THEN [cmd EXCEPT !.addr = @ \o block_address] ELSE cmd

RECURSIVE flatten_commands(_)
flatten_commands(commands) ==
    IF ~\E k \in 1..Len(commands) : commands[k].verb = "Block" THEN commands
    ELSE flatten_commands(Flatten(
            [k \in 1..Len(commands) |->
                IF commands[k].verb /= "Block" THEN <<commands[k]>>
                ELSE IF commands[k].addr = NoAddress THEN commands[k].commands
                ELSE [j \in 1..Len(commands[k].commands) |->
                        WithBlockAddress(commands[k].commands[j], commands[k].addr)]]))

\* the commands the arms of Script::parse push without reading an argument
SimpleVerbChars == {"d", "D", "g", "G", "h", "H", "I", "n", "N", "p", "P", "q", "x", "="}

SimpleCommand(ch, addr) ==
    CASE ch = "d" -> DeletePattern(addr)
      [] ch = "D" -> DeleteFirstLine(addr)
      [] ch = "g" -> Command("ReplacePatternWithHold", addr)
      [] ch = "G" -> Command("AppendHoldToPattern", addr)
      [] ch = "h" -> Command("ReplaceHoldWithPattern", addr)
      [] ch = "H" -> Command("AppendPatternToHold", addr)
      [] ch = "I" -> Command("PrintPatternBinary", addr)
      [] ch = "n" -> Command("PrintPatternAndReplaceWithNext", addr)
      [] ch = "N" -> Command("AppendNextToPattern", addr)
      [] ch = "p" -> PrintPattern(addr)
      [] ch = "P" -> PrintFirstLine(addr)
      [] ch = "q" -> Command("Quit", addr)
      [] ch = "x" -> Command("ExchangeSpaces", addr)
      [] ch = "=" -> Command("PrintStandard", addr)

TextVerb(ch) ==
    CASE ch = "a" -> "PrintTextAfter"
      [] ch = "c" -> "DeletePatternAndPrintText"
      [] ch = "i" -> "PrintTextBefore"

\* the locals of Script::parse before its loop
NewFrame(chars) ==
    LET comment == Len(chars) >= 2 /\ chars[1] = "#" /\ chars[2] = "n"
    IN  [chars |-> chars,
         i |-> IF comment THEN 2 ELSE 0,
         commands |-> IF comment THEN <<IgnoreComment>> ELSE <<>>,
         address |-> NoAddress,
         command_added |-> FALSE,
         last_commands_count |-> 0]

\* the end of one pass through the loop of Script::parse
LoopTail(f) ==
    [f EXCEPT !.last_commands_count = IF @ < Len(f.commands) THEN Len(f.commands) ELSE @,
              !.command_added = IF f.last_commands_count < Len(f.commands) THEN TRUE ELSE @,
              !.i = @ + 1]

Pushed(f, k, cmd) == [frame |-> LoopTail([f EXCEPT !.i = k, !.commands = Append(@, cmd)]), err |-> ""]
Moved(f, k) == [frame |-> LoopTail([f EXCEPT !.i = k]), err |-> ""]
Failed(f, message) == [frame |-> f, err |-> message]

LastIsBlock(f) == f.commands /= <<>> /\ f.commands[Len(f.commands)].verb = "Block"

\* whether the arm for '{' is reached with a block that is closed
EntersBlock(f) ==
    /\ Get(f.chars, f.i) = "{"
    /\ ~(f.command_added /\ ~LastIsBlock(f))
    /\ BlockLimit(f.chars, f.i, 0) >= 0

\* one pass through the loop of Script::parse on the character under the cursor,
\* for every arm but the entry into a block: the frame it leaves, and err as "" for
\* a pass that goes on, "panic" for a panic, the message of the Err otherwise
ParseChar(f, existing) ==
    LET chars == f.chars
        k == f.i
        ch == Get(chars, k)
        address == f.address
    IN  IF ch = " " THEN Moved(f, k)
        ELSE IF ch \in {NL, ";"}
        THEN IF address /= NoAddress /\ ~f.command_added
             THEN Failed(f, "address hasn't command")
             ELSE [frame |-> LoopTail([f EXCEPT !.address = NoAddress, !.command_added = FALSE]),
                   err |-> ""]
        ELSE IF ch = "}" THEN Failed(f, "unneccessary '}'")
        ELSE IF f.command_added /\ ~LastIsBlock(f)
        THEN Failed(f, "commands must be delimited with ';'")
        ELSE IF IsDigit(ch) \/ ch \in {BS, "$"}
        THEN LET a == parse_address(chars, k)
             IN  IF a.err /= "" THEN Failed(f, a.err)
                 ELSE [frame |-> LoopTail([f EXCEPT !.i = a.i, !.address = a.address]), err |-> ""]
        ELSE IF ch = "{" THEN Failed(f, "'{' not have pair for closing block")
        ELSE IF ch \in {"a", "c", "i"}
        THEN LET t == parse_text_attribute(chars, k)
             IN  IF t.err /= "" THEN Failed(f, t.err)
                 ELSE IF t.text = <<>> THEN Failed(f, "missing text argument")
                 ELSE Pushed(f, t.i, TextCmd(TextVerb(ch), address, t.text))
        ELSE IF ch \in {"b", "t"}
        THEN LET w == parse_word_attribute(chars, k + 1)
             IN  IF w.err /= "" THEN Failed(f, w.err)
                 ELSE Pushed(f, w.i, IF ch = "b" THEN BranchToLabel(address, w.label)
                                     ELSE Test(address, w.label))
        ELSE IF ch = ":"
        THEN LET w == parse_word_attribute(chars, k + 1)
             IN  IF w.err /= "" THEN Failed(f, w.err)
                 ELSE IF w.label = <<>> THEN Failed(f, "label doesn't have name")
                 ELSE Pushed(f, w.i, BearBranchLabel(w.label))
        ELSE IF ch \in {"r", "w"}
        THEN LET p == parse_path_attribute(chars, k, existing)
             IN  Pushed(f, p.i, PathCmd(IF ch = "r" THEN "PrintFile" ELSE "AppendPatternToFile",
                                        address, PathOrDefault(p)))
        ELSE IF ch = "s"
        THEN LET c == parse_replace_command(chars, k)
                 fl == parse_replace_flags(chars, c.i, existing)
             IN  IF c.err /= "" THEN Failed(f, c.err)
                 ELSE IF fl.panic THEN Failed(f, "panic")
                 ELSE IF fl.err /= "" THEN Failed(f, fl.err)
                 ELSE Pushed(f, fl.i, Replace(address, compile_regex(c.pattern), c.replacement, fl.flags))
        ELSE IF ch = "y"
        THEN LET c == parse_replace_command(chars, k)
             IN  IF c.err /= "" THEN Failed(f, c.err)
                 ELSE IF Len(c.pattern) /= Len(c.replacement)
                 THEN Failed(f, "number of characters in the two arrays does not match")
                 ELSE Pushed(f, c.i, TransCmd(address, c.pattern, c.replacement))
        ELSE IF ch = "#" THEN Moved(f, skip_comment(chars, k))
        ELSE IF ch \in SimpleVerbChars THEN Pushed(f, k, SimpleCommand(ch, address))
        ELSE Failed(f, "unknown character")

\* the labels Script::parse collects from its commands
LabelsOf(commands) ==
    SelectSeq(commands, LAMBDA cmd : cmd.verb = "BearBranchLabel")

\* Script::parse after its loop: [err, commands]
Finish(f) ==
    LET labels == LabelsOf(f.commands)
    IN  IF Len(labels) > Cardinality({labels[k].label : k \in 1..Len(labels)})
        THEN [err |-> "label is repeated", commands |-> <<>>]
        ELSE IF \E k \in 1..Len(f.commands) : ~check_address(f.commands[k])
        THEN [err |-> "address isn't position or range", commands |-> <<>>]
        ELSE [err |-> "", commands |-> flatten_commands(f.commands)]

(***************************************************************************)
(* Script::parse as a process: one step per pass through its loop, one for *)
(* the call parse_block makes for the body of a block, one for the return. *)
(***************************************************************************)
MaxCommands == 6

Parsing == parsed.status = "running" /\ frames /= <<>>
Top == frames[Len(frames)]

ParseEnded(status, commands, message) ==
    /\ frames' = <<>>
    /\ parsed' = [status |-> status, commands |-> commands, err |-> message]

\* one pass through the loop of Script::parse
ParseLoop ==
    /\ Parsing
    /\ Top.i < Len(Top.chars)
    /\ ~EntersBlock(Top)
    /\ Len(Top.commands) <= MaxCommands
    /\ LET r == ParseChar(Top, files)
       IN  IF r.err = ""
           THEN /\ frames' = [frames EXCEPT ![Len(frames)] = r.frame]
                /\ UNCHANGED parsed
           ELSE ParseEnded(IF r.err = "panic" THEN "panic" ELSE "Err", <<>>, r.err)
    /\ UNCHANGED <<raw_script, files, sedVars, timeoutVars, awkVars, positionVars>>

\* the arm for '{': parse_block up to its call of Script::parse on the body
ParseBlock ==
    /\ Parsing
    /\ Top.i < Len(Top.chars)
    /\ EntersBlock(Top)
    /\ frames' = Append(frames, NewFrame(Slice(Top.chars, Top.i + 1, BlockLimit(Top.chars, Top.i, 0))))
    /\ UNCHANGED <<raw_script, files, parsed, sedVars, timeoutVars, awkVars, positionVars>>

\* Script::parse after its loop; the return into parse_block and the arm for '{',
\* or to the caller of the outermost Script::parse
ParseReturn ==
    /\ Parsing
    /\ ~(Top.i < Len(Top.chars))
    /\ LET r == Finish(Top)
           caller == frames[Len(frames) - 1]
       IN  IF r.err /= "" THEN ParseEnded("Err", <<>>, r.err)
           ELSE IF Len(frames) = 1 THEN ParseEnded("Ok", r.commands, "")
           ELSE /\ frames' = Append(SubSeq(frames, 1, Len(frames) - 2),
                                    Pushed(caller, BlockLimit(caller.chars, caller.i, 0) + 1,
                                           Block(caller.address, r.commands)).frame)
                /\ UNCHANGED parsed
    /\ UNCHANGED <<raw_script, files, sedVars, timeoutVars, awkVars, positionVars>>

(***************************************************************************)
(* The script texts.                                                       *)
(***************************************************************************)
Substitute == <<"s", "/", "a", "/", "b", "/">>

\* the flags written after s/a/b/
FlagTexts ==
    {<<>>, <<"g">>, <<"p">>, <<"2">>, <<"g", "p">>, <<"g", "g">>, <<"p", "p">>, <<"2", "2">>,
     <<"2", "g">>, <<"w", " ", "f">>, <<"w">>, <<"w", "p">>, <<"p", "w", " ", "f">>,
     <<"g", "g", "w", " ", "f">>, <<"p", "g", "p", "w", " ", "f">>}

\* one command each
Units ==
    {<<"p">>, <<"N">>, <<"x">>, <<"2", "p">>, <<"1", ",", "2", "p">>, <<"$", "p">>,
     <<"2", ",", "1", "p">>, <<"1", ",", "2", "q">>, <<"0", "p">>,
     <<":", "a">>, <<"b", " ", "a">>, <<"t">>,
     <<"#">>, <<"#", "x">>, <<"#", "x", NL>>, <<"#", NL>>, <<"#", "n">>,
     <<"y", "/", "a", "b", "/", "b", "a", "/">>, <<"y", "/", "a", "b", "/", "b", "/">>,
     <<"r", " ", "f">>, <<"w", " ", "f">>, <<"k">>, <<"}">>, <<"{", "p">>,
     <<BS, ",", "a", ",", "p">>}
    \cup {<<v, BS, NL, "t">> : v \in {"a", "c", "i"}}
    \cup {<<v, BS, "t">> : v \in {"a", "c", "i"}}
    \cup {<<"a", BS, " ", "t", NL>>, <<"a", "t">>, <<"a">>}
    \cup {Substitute \o fl : fl \in FlagTexts}

\* the commands written inside a block
BlockUnits == {<<"p">>, <<"N">>, <<"3", "p">>, <<":", "a">>, <<"#", "n">>}

BlockBodies ==
    BlockUnits
    \cup {u \o <<";">> \o v : u \in BlockUnits, v \in BlockUnits}
    \cup {<<"2", "{", "p", "}">>, <<"{", ":", "a", "}">>, <<"2", "{", "N", "}">>}

BlockAddresses == {<<>>, <<"2">>, <<"1", ",", "2">>}

Blocks == {a \o <<"{">> \o body \o <<"}">> : a \in BlockAddresses, body \in BlockBodies}

Elements == Units \cup Blocks

\* what a script text may begin with, and the delimiters that may follow it
Leading ==
    {<<"p">>, <<"2", "p">>, <<":", "a">>, <<"#", "n">>, <<"#", "x">>, <<"{", ":", "a", "}">>,
     <<"2", "{", "p", "}">>, <<"a", BS, "t", NL>>}

Delimiters == {<<";">>, <<NL>>, <<";", ";">>, <<NL, NL>>}

ScriptTexts ==
    Elements \cup {a \o d \o b : a \in Leading, d \in Delimiters, b \in Elements}

InitParse ==
    /\ raw_script \in ScriptTexts
    /\ files \in {{}, {FileF}}
    /\ frames = <<NewFrame(raw_script)>>
    /\ parsed = [status |-> "running", commands |-> <<>>, err |-> ""]
    /\ script = <<>>
    /\ input_sources = <<>>
    /\ openable = <<>>
    /\ stderr = <<>>
    /\ quiet = FALSE
    /\ pattern_space = <<>>
    /\ hold_space = <<>>
    /\ after_space = <<>>
    /\ current_line = 0
    /\ has_replacements_since_t = FALSE
    /\ src_idx = 1
    /\ file_pos = 0
    /\ i = 0
    /\ global_instruction = "None"
    /\ stdout = <<>>
    /\ wfiles = <<>>
    /\ pc = "parse"
    /\ NoTimeout
    /\ NoAwk
    /\ NoPosition

NextParse == ParseLoop \/ ParseBlock \/ ParseReturn

SpecParse == InitParse /\ [][NextParse]_vars

(***************************************************************************)
(* The claims on Script::parse, under SpecParse.                           *)
(***************************************************************************)
ParsedOk == parsed.status = "Ok"

\* the text of the script begins with the characters of prefix
BeginsWith(text, prefix) == Len(text) >= Len(prefix) /\ SubSeq(text, 1, Len(prefix)) = prefix

\* offset k of the script text (1-based) lies in a comment: a '#' stands before it
\* on the same line (no script text holds a '#' that is not the start of a comment)
RefInComment(text, k) ==
    \E h \in 1..k : text[h] = "#" /\ \A j \in h..k : text[j] /= NL

\* the number of ':' commands of the script text; each bears the label "a", the
\* only label of the script texts
RefLabelCount(text) ==
    Cardinality({k \in 1..Len(text) : text[k] = ":" /\ ~RefInComment(text, k)})

\* C22: Script::parse fails with a parse error whenever two ':' commands of the
\* script bear the same label, wherever they stand: both at top level, one at top
\* level and one inside a block, or in two different blocks.
C22_RepeatedLabelIsRejected ==
    (parsed.status /= "running" /\ RefLabelCount(raw_script) >= 2) => parsed.status = "Err"

\* the script text is one a, i or c command in the form verb, backslash, newline,
\* text, the text not empty and on one line
RefTextForm(text) ==
    /\ Len(text) >= 4
    /\ text[1] \in {"a", "c", "i"} /\ text[2] = BS /\ text[3] = NL
    /\ \A k \in 4..Len(text) : text[k] /= NL

\* C23: for a, i and c the form verb, backslash, newline, text parses successfully
\* into a command that carries as its text the characters that follow that newline.
C23_TextAfterBackslashNewline ==
    (parsed.status /= "running" /\ RefTextForm(raw_script))
        => /\ ParsedOk
           /\ parsed.commands =
                <<TextCmd(TextVerb(raw_script[1]), NoAddress, SubSeq(raw_script, 4, Len(raw_script)))>>

\* the offset of the first newline at or after offset k, or the length of the text
RefLineEnd(chars, k) ==
    IF \E j \in k..(Len(chars) - 1) : chars[j + 1] = NL
    THEN CHOOSE j \in k..(Len(chars) - 1) :
            chars[j + 1] = NL /\ \A h \in k..(j - 1) : chars[h + 1] /= NL
    ELSE Len(chars)

\* the loop of Script::parse is about to take the arm for '#'
AtComment ==
    /\ Parsing
    /\ Get(Top.chars, Top.i) = "#"
    /\ ~(Top.command_added /\ ~LastIsBlock(Top))

\* C24: a '#' comment consumes exactly the characters up to the next newline or the
\* end of the script: the cursor does not move backwards and does not stop inside
\* the comment, and the pass adds no command.
C24_CommentIsSkippedForward ==
    [][AtComment
         => /\ frames' /= <<>>
            /\ frames'[Len(frames')].i >= RefLineEnd(Top.chars, Top.i)
            /\ frames'[Len(frames')].commands = Top.commands
      ]_vars

\* the parsed script holds the command that turns quiet on when it is executed
\* (Sed::execute, Command::IgnoreComment)
HoldsIgnoreComment == \E k \in 1..Len(parsed.commands) : parsed.commands[k].verb = "IgnoreComment"

\* C25: default output is suppressed by a comment exactly when the whole script
\* begins with #n; a #n that begins the body of a block, or stands anywhere else,
\* leaves no command that turns quiet on.
C25_QuietCommentOnlyAtScriptStart ==
    ParsedOk => (HoldsIgnoreComment <=> BeginsWith(raw_script, <<"#", "n">>))

\* the loop of Script::parse is about to take the arm for 's' and parse_replace_command
\* succeeds, so that parse_replace_flags is called
AtReplaceFlags ==
    /\ Parsing
    /\ Get(Top.chars, Top.i) = "s"
    /\ ~(Top.command_added /\ ~LastIsBlock(Top))
    /\ parse_replace_command(Top.chars, Top.i).err = ""

\* the flag characters parse_replace_flags is given: the characters from offset k up
\* to the first that is no digit, g, p or w
RECURSIVE RefFlagChars(_, _)
RefFlagChars(chars, k) ==
    IF k < Len(chars) /\ (IsDigit(chars[k + 1]) \/ chars[k + 1] \in {"g", "p", "w"})
    THEN <<chars[k + 1]>> \o RefFlagChars(chars, k + 1)
    ELSE <<>>

CallFlagChars == RefFlagChars(Top.chars, parse_replace_command(Top.chars, Top.i).i)

\* a digit, g or p stands more than once among the flag characters
RefRepeatedFlag(fl) ==
    \/ Cardinality({k \in 1..Len(fl) : IsDigit(fl[k])}) > 1
    \/ Cardinality({k \in 1..Len(fl) : fl[k] = "g"}) > 1
    \/ Cardinality({k \in 1..Len(fl) : fl[k] = "p"}) > 1

\* C26: parse_replace_flags returns a parse error, and neither panics nor accepts
\* the flags, whenever a digit, g or p flag occurs more than once, with or without a
\* w flag.
C26_RepeatedFlagIsAnError ==
    [][(AtReplaceFlags /\ RefRepeatedFlag(CallFlagChars)) => parsed'.status = "Err"]_vars

\* the characters of s without the spaces at its two ends
RECURSIVE RefStrip(_)
RefStrip(s) ==
    IF s = <<>> THEN s
    ELSE IF Head(s) = " " THEN RefStrip(Tail(s))
    ELSE IF s[Len(s)] = " " THEN RefStrip(SubSeq(s, 1, Len(s) - 1))
    ELSE s

\* the path written after the w at offset k: the characters up to the end of the
\* command, without the spaces around them
RefPathAfter(chars, k) ==
    LET end == IF \E j \in (k + 1)..(Len(chars) - 1) : chars[j + 1] \in {NL, ";"}
               THEN CHOOSE j \in (k + 1)..(Len(chars) - 1) :
                       chars[j + 1] \in {NL, ";"} /\ \A h \in (k + 1)..(j - 1) : chars[h + 1] \notin {NL, ";"}
               ELSE Len(chars)
    IN  RefStrip(Slice(chars, k + 1, end))

\* the flags end with the only w and no other flag is repeated or in conflict
CallEndsWithW ==
    /\ CallFlagChars /= <<>>
    /\ CallFlagChars[Len(CallFlagChars)] = "w"
    /\ Cardinality({k \in 1..Len(CallFlagChars) : CallFlagChars[k] = "w"}) = 1
    /\ ~RefRepeatedFlag(CallFlagChars)
    /\ ~((\E k \in 1..Len(CallFlagChars) : IsDigit(CallFlagChars[k]))
         /\ (\E k \in 1..Len(CallFlagChars) : CallFlagChars[k] = "g"))

CallPath ==
    RefPathAfter(Top.chars, parse_replace_command(Top.chars, Top.i).i + Len(CallFlagChars) - 1)

\* the flags of the command the pass has pushed
PushedFlags == frames'[Len(frames')].commands[Len(frames'[Len(frames')].commands)].flags

\* C27: parse_replace_flags fails with an error when the path of the w flag is empty
\* or names no existing regular file; when it succeeds the flags hold exactly one
\* AppendToIfReplace, the last element, and it carries the parsed path.
C27_AppendFlagCarriesExistingPath ==
    [][(AtReplaceFlags /\ CallEndsWithW)
         => IF CallPath \notin files
            THEN parsed'.status = "Err"
            ELSE /\ frames' /= <<>>
                 /\ FlagCount(PushedFlags, "AppendToIfReplace") = 1
                 /\ PushedFlags[Len(PushedFlags)] = AppendToIfReplace(CallPath)
      ]_vars

\* the commands that hold an address (Option<Address>) in Script::parse: every
\* command but the label and the #n comment
RefAddressable(cmd) == cmd.verb \notin {"BearBranchLabel", "IgnoreComment"}

\* what flattening is to give for the commands of one level, whose blocks hold
\* flattened bodies: the commands in order, each command of a block with its own
\* ranges followed by the ranges of the block
RefFlatten(commands) ==
    Flatten([k \in 1..Len(commands) |->
        IF commands[k].verb /= "Block" THEN <<commands[k]>>
        ELSE [j \in 1..Len(commands[k].commands) |->
                IF RefAddressable(commands[k].commands[j])
                THEN [commands[k].commands[j] EXCEPT !.addr = @ \o commands[k].addr]
                ELSE commands[k].commands[j]]])

\* Script::parse returns without error
Returning ==
    /\ Parsing
    /\ ~(Top.i < Len(Top.chars))
    /\ Finish(Top).err = ""

\* the commands the return hands over: the script, or the body of the block pushed
\* in the caller
Returned ==
    IF Len(frames) = 1 THEN parsed'.commands
    ELSE frames'[Len(frames')].commands[Len(frames'[Len(frames')].commands)].commands

\* C29: Script::parse returns commands without a Block, in source order, in which
\* every addressable command that stood in a block holds its own ranges and a copy
\* of the ranges of the enclosing block.
C29_FlattenKeepsBlockAddresses ==
    [][Returning
         => /\ \A k \in 1..Len(Returned) : Returned[k].verb /= "Block"
            /\ Returned = RefFlatten(Top.commands)
      ]_vars

(***************************************************************************)
(* timeout (src/process/timeout.rs): the parent process after the fork.    *)
(* Time is counted in ticks, TicksPerSecond of them a second, so that a    *)
(* Duration with a fraction of a second can be told from its whole         *)
(* seconds.  Signals are named by the text after "SIG".                    *)
(***************************************************************************)
TicksPerSecond == 2
MaxTime == 5
MaxKillAfter == 3
MaxExternal == 1
MaxStops == 1

SignalNumber(signal) ==
    CASE signal = "HUP" -> 1
      [] signal = "INT" -> 2
      [] signal = "ABRT" -> 6
      [] signal = "KILL" -> 9
      [] signal = "ALRM" -> 14
      [] signal = "TERM" -> 15
      [] signal = "CHLD" -> 17
      [] signal = "CONT" -> 18

\* Duration::as_secs: the whole seconds of a duration given in ticks
as_secs(duration) == duration \div TicksPerSecond

\* alarm(seconds): the expiry that replaces the pending one, none for alarm(0)
Alarm(seconds, at) == IF seconds = 0 THEN <<>> ELSE <<at + seconds * TicksPerSecond>>

\* set_timeout(duration) called at tick `at` by `by`: the new <<alarm, armed>>
set_timeout(duration, at, by, oldAlarm, oldArmed) ==
    IF duration /= 0
    THEN <<Alarm(as_secs(duration), at),
           Append(oldArmed, [ticks |-> as_secs(duration) * TicksPerSecond, at |-> at, by |-> by])>>
    ELSE <<oldAlarm, oldArmed>>

ChildAlive(c) == c.state \in {"running", "stopped"}

\* what a signal of the process does to the child; `dies` says whether a
\* signal the child may catch ends it
Receive(c, signal, dies) ==
    IF ~ChildAlive(c) THEN c
    ELSE IF signal = "KILL" THEN [state |-> "signaled", code |-> SignalNumber("KILL")]
    ELSE IF signal = "CONT" THEN [state |-> "running", code |-> 0]
    ELSE IF dies THEN [state |-> "signaled", code |-> SignalNumber(signal)]
    ELSE c

RECURSIVE ReceiveAll(_, _, _)
ReceiveAll(c, signals, dies) ==
    IF signals = <<>> THEN c
    ELSE ReceiveAll(Receive(c, Head(signals), dies), Tail(signals), dies)

\* send_signal(pid, signal) as an entry of `sent`
Sending(to, signal, at, by) == [signal |-> signal, to |-> to, at |-> at, by |-> by]

\* the sends of handler for `signal`, in order
HandlerSends(signal, foreground, at) ==
    <<Sending("child", signal, at, "handler")>>
    \o (IF ~foreground
        THEN <<Sending("group", signal, at, "handler")>>
             \o (IF signal /= "KILL" /\ signal /= "CONT"
                 THEN <<Sending("child", "CONT", at, "handler"),
                        Sending("group", "CONT", at, "handler")>>
                 ELSE <<>>)
        ELSE <<>>)

SignalsOf(sends) == [k \in 1..Len(sends) |-> sends[k].signal]

\* the signals send_signal(0, ..) has set to SIG_IGN; signal() fails for SIGKILL
IgnoredBy(sends) == {sends[k].signal : k \in {j \in 1..Len(sends) : sends[j].to = "group"}} \ {"KILL"}

Running == tpc \in {"set_timeout", "waitpid", "sigsuspend"}

TopHandler == handlers[Len(handlers)]

SetTop(h) == [handlers EXCEPT ![Len(handlers)] = h]

\* the signal is generated for the process unless it is set to SIG_IGN
Generate(set, signal, ign) == IF signal \in ign THEN set ELSE set \union {signal}

\* timeout(): set_timeout(duration) after the fork
SetTimeout ==
    /\ tpc = "set_timeout"
    /\ LET r == set_timeout(args.duration, now, "timeout", alarm, armed) IN
        /\ alarm' = r[1]
        /\ armed' = r[2]
    /\ tpc' = "waitpid"
    /\ UNCHANGED <<args, FOREGROUND, FIRST_SIGNAL, KILL_AFTER, TIMED_OUT, kill_after_lock,
                   handlers, now, pending, ignored, child, sent, external, exit_code>>
    /\ UNCHANGED <<sedVars, parseVars, awkVars, positionVars>>

\* the value timeout() returns for a child that has ended
ExitStatus(c, timedOut, preserve) ==
    LET preserve_status == preserve \/ (c.state = "signaled" /\ timedOut /\ c.code = SignalNumber("KILL"))
        status == IF c.state = "exited" THEN c.code ELSE 128 + c.code
    IN IF timedOut /\ ~preserve_status THEN 124 ELSE status

\* timeout(): one round of the wait loop, and what follows it when it breaks
WaitPid ==
    /\ tpc = "waitpid"
    /\ \/ /\ child.state = "running"
          /\ tpc' = "sigsuspend"
          /\ UNCHANGED <<TIMED_OUT, child, sent, exit_code>>
       \/ /\ child.state = "stopped"
          /\ sent' = Append(sent, Sending("child", "CONT", now, "timeout"))
          /\ child' = Receive(child, "CONT", FALSE)
          /\ TIMED_OUT' = TRUE
          /\ UNCHANGED <<tpc, exit_code>>
       \/ /\ child.state = "exited"
          /\ exit_code' = ExitStatus(child, TIMED_OUT, args.preserve_status)
          /\ tpc' = "exited"
          /\ UNCHANGED <<TIMED_OUT, child, sent>>
       \/ /\ child.state = "signaled"
          /\ \E disabled \in BOOLEAN :
                IF ~TIMED_OUT /\ disabled
                THEN /\ exit_code' = 128 + child.code
                     /\ tpc' = "killed"
                ELSE /\ exit_code' = ExitStatus(child, TIMED_OUT, args.preserve_status)
                     /\ tpc' = "exited"
          /\ UNCHANGED <<TIMED_OUT, child, sent>>
    /\ UNCHANGED <<args, FOREGROUND, FIRST_SIGNAL, KILL_AFTER, kill_after_lock, handlers,
                   alarm, now, pending, ignored, armed, external>>
    /\ UNCHANGED <<sedVars, parseVars, awkVars, positionVars>>

\* the signals the process has blocked: those whose handler is running
Blocked == {handlers[k].received : k \in 1..Len(handlers)}

\* chld_handler runs during sigsuspend
DeliverChld ==
    /\ tpc = "sigsuspend"
    /\ "CHLD" \in pending
    /\ pending' = pending \ {"CHLD"}
    /\ tpc' = IF handlers = <<>> THEN "waitpid" ELSE tpc
    /\ UNCHANGED <<args, FOREGROUND, FIRST_SIGNAL, KILL_AFTER, TIMED_OUT, kill_after_lock,
                   handlers, alarm, now, ignored, child, sent, armed, external, exit_code>>
    /\ UNCHANGED <<sedVars, parseVars, awkVars, positionVars>>

\* handler is entered during sigsuspend, or on top of a handler of another signal
HandlerEnter ==
    /\ tpc = "sigsuspend"
    /\ \E received \in (pending \ {"CHLD"}) \ Blocked :
        /\ pending' = pending \ {received}
        /\ TIMED_OUT' = IF received = "ALRM" THEN TRUE ELSE TIMED_OUT
        /\ handlers' = Append(handlers,
                              [received |-> received,
                               signal |-> IF received = "ALRM" THEN FIRST_SIGNAL ELSE received,
                               pc |-> "lock"])
    /\ UNCHANGED <<args, FOREGROUND, FIRST_SIGNAL, KILL_AFTER, kill_after_lock, alarm, now,
                   ignored, child, sent, armed, external, exit_code, tpc>>
    /\ UNCHANGED <<sedVars, parseVars, awkVars, positionVars>>

\* handler: KILL_AFTER.lock() and the arming of the kill-after timer
HandlerLock ==
    /\ tpc = "sigsuspend"
    /\ handlers /= <<>>
    /\ TopHandler.pc = "lock"
    /\ ~kill_after_lock
    /\ kill_after_lock' = TRUE
    /\ IF KILL_AFTER /= <<>>
       THEN /\ FIRST_SIGNAL' = "KILL"
            /\ LET r == set_timeout(KILL_AFTER[1], now, "handler", alarm, armed) IN
                /\ alarm' = r[1]
                /\ armed' = r[2]
            /\ KILL_AFTER' = <<>>
       ELSE UNCHANGED <<FIRST_SIGNAL, alarm, armed, KILL_AFTER>>
    /\ handlers' = SetTop([TopHandler EXCEPT !.pc = "send"])
    /\ UNCHANGED <<args, FOREGROUND, TIMED_OUT, now, pending, ignored, child, sent, external,
                   exit_code, tpc>>
    /\ UNCHANGED <<sedVars, parseVars, awkVars, positionVars>>

\* handler: KILL_AFTER.lock() while an interrupted invocation of handler holds the
\* mutex. Mutex::lock does not return then: it blocks for ever (no step), or it
\* panics, which aborts the process
HandlerRelock ==
    /\ tpc = "sigsuspend"
    /\ handlers /= <<>>
    /\ TopHandler.pc = "lock"
    /\ kill_after_lock
    /\ tpc' = "killed"
    /\ exit_code' = 128 + SignalNumber("ABRT")
    /\ UNCHANGED <<args, FOREGROUND, FIRST_SIGNAL, KILL_AFTER, TIMED_OUT, kill_after_lock,
                   handlers, alarm, now, pending, ignored, child, sent, armed, external>>
    /\ UNCHANGED <<sedVars, parseVars, awkVars, positionVars>>

\* handler: the propagation of the signal, the release of the lock, the return
HandlerSend ==
    /\ tpc = "sigsuspend"
    /\ handlers /= <<>>
    /\ TopHandler.pc = "send"
    /\ LET sends == HandlerSends(TopHandler.signal, FOREGROUND, now)
           rest == SubSeq(handlers, 1, Len(handlers) - 1)
       IN /\ sent' = sent \o sends
          /\ \E dies \in BOOLEAN : child' = ReceiveAll(child, SignalsOf(sends), dies)
          /\ ignored' = ignored \union IgnoredBy(sends)
          /\ pending' = (IF child' /= child THEN pending \union {"CHLD"} ELSE pending) \ ignored'
          /\ kill_after_lock' = FALSE
          /\ handlers' = rest
          /\ tpc' = IF ~FOREGROUND /\ TopHandler.signal = "KILL" THEN "killed"
                    ELSE IF rest = <<>> THEN "waitpid"
                    ELSE tpc
          /\ exit_code' = IF tpc' = "killed" THEN 128 + SignalNumber("KILL") ELSE exit_code
    /\ UNCHANGED <<args, FOREGROUND, FIRST_SIGNAL, KILL_AFTER, TIMED_OUT, alarm, now, armed,
                   external>>
    /\ UNCHANGED <<sedVars, parseVars, awkVars, positionVars>>

\* a tick passes while no handler runs; the alarm generates SIGALRM when it expires
Tick ==
    /\ Running
    /\ handlers = <<>>
    /\ now < MaxTime
    /\ now' = now + 1
    /\ IF alarm = <<now + 1>>
       THEN /\ alarm' = <<>>
            /\ pending' = Generate(pending, "ALRM", ignored)
       ELSE UNCHANGED <<alarm, pending>>
    /\ UNCHANGED <<args, FOREGROUND, FIRST_SIGNAL, KILL_AFTER, TIMED_OUT, kill_after_lock,
                   handlers, ignored, child, sent, armed, external, exit_code, tpc>>
    /\ UNCHANGED <<sedVars, parseVars, awkVars, positionVars>>

ExternalSignals == {"INT"}

\* another process sends the process a signal that set_handler has a handler for
External ==
    /\ Running
    /\ external < MaxExternal
    /\ external' = external + 1
    /\ \E signal \in ExternalSignals : pending' = Generate(pending, signal, ignored)
    /\ UNCHANGED <<args, FOREGROUND, FIRST_SIGNAL, KILL_AFTER, TIMED_OUT, kill_after_lock,
                   handlers, alarm, now, ignored, child, sent, armed, exit_code, tpc>>
    /\ UNCHANGED <<sedVars, parseVars, awkVars, positionVars>>

\* the utility ends by itself
ChildExit ==
    /\ Running
    /\ child.state = "running"
    /\ \E status \in {0, 1} : child' = [state |-> "exited", code |-> status]
    /\ pending' = pending \union {"CHLD"}
    /\ UNCHANGED <<args, FOREGROUND, FIRST_SIGNAL, KILL_AFTER, TIMED_OUT, kill_after_lock,
                   handlers, alarm, now, ignored, sent, armed, external, exit_code, tpc>>
    /\ UNCHANGED <<sedVars, parseVars, awkVars, positionVars>>

Stops == Cardinality({k \in 1..Len(sent) : sent[k].by = "timeout"})

\* the utility is stopped by a signal of its own
ChildStop ==
    /\ Running
    /\ child.state = "running"
    /\ Stops < MaxStops
    /\ child' = [state |-> "stopped", code |-> 0]
    /\ pending' = pending \union {"CHLD"}
    /\ UNCHANGED <<args, FOREGROUND, FIRST_SIGNAL, KILL_AFTER, TIMED_OUT, kill_after_lock,
                   handlers, alarm, now, ignored, sent, armed, external, exit_code, tpc>>
    /\ UNCHANGED <<sedVars, parseVars, awkVars, positionVars>>

SignalNames == {"TERM", "HUP"}
Durations == {0, TicksPerSecond}
KillAfters == {<<>>} \union {<<d>> : d \in 1..MaxKillAfter}

\* the variables of sed while timeout runs
NoSed ==
    /\ script = <<>>
    /\ input_sources = <<>>
    /\ openable = <<>>
    /\ stderr = <<>>
    /\ quiet = FALSE
    /\ pattern_space = <<>>
    /\ hold_space = <<>>
    /\ after_space = <<>>
    /\ current_line = 0
    /\ has_replacements_since_t = FALSE
    /\ src_idx = 1
    /\ file_pos = 0
    /\ i = 0
    /\ global_instruction = "None"
    /\ stdout = <<>>
    /\ wfiles = <<>>
    /\ pc = "timeout"

\* the parent after the fork has stored MONITORED_PID, signals blocked
InitTimeout ==
    /\ args \in [foreground : BOOLEAN, preserve_status : BOOLEAN, kill_after : KillAfters,
                 signal_name : SignalNames, duration : Durations]
    /\ FOREGROUND = args.foreground
    /\ FIRST_SIGNAL = args.signal_name
    /\ KILL_AFTER = args.kill_after
    /\ TIMED_OUT = FALSE
    /\ kill_after_lock = FALSE
    /\ handlers = <<>>
    /\ alarm = <<>>
    /\ now = 0
    /\ pending = {}
    /\ ignored = {}
    /\ child = [state |-> "running", code |-> 0]
    /\ sent = <<>>
    /\ armed = <<>>
    /\ external = 0
    /\ exit_code = -1
    /\ tpc = "set_timeout"
    /\ NotParsing
    /\ NoSed
    /\ NoAwk
    /\ NoPosition

NextTimeout ==
    \/ SetTimeout
    \/ WaitPid
    \/ DeliverChld
    \/ HandlerEnter
    \/ HandlerLock
    \/ HandlerRelock
    \/ HandlerSend
    \/ Tick
    \/ External
    \/ ChildExit
    \/ ChildStop

SpecTimeout == InitTimeout /\ [][NextTimeout]_vars

(***************************************************************************)
(* timeout: the kill-after timer                                           *)
(***************************************************************************)
\* the signals handler has sent to the child itself, in order
Propagated == SelectSeq(sent, LAMBDA s : s.by = "handler" /\ s.to = "child" /\ s.signal /= "CONT")

\* the calls of alarm() handler has made for the kill-after duration
KillAfterTimers == SelectSeq(armed, LAMBDA a : a.by = "handler")

FirstSignalSent == args.kill_after /= <<>> /\ Propagated /= <<>>

\* C28: with -k given, once the first signal has been sent to the child a
\* timer of the kill-after duration has been armed exactly once, and SIGKILL
\* is sent to the child only after the first signal was sent and the
\* kill-after duration has passed since.
C28_KillAfterTimerOfTheGivenDuration ==
    FirstSignalSent =>
        /\ Len(KillAfterTimers) = 1
        /\ KillAfterTimers[1].ticks = args.kill_after[1]
        /\ \A k \in 1..Len(Propagated) :
              Propagated[k].signal = "KILL" =>
                  /\ k > 1
                  /\ Propagated[k].at >= Propagated[1].at + args.kill_after[1]

(***************************************************************************)
(* The w flag of s                                                         *)
(***************************************************************************)
CallHasW == Calling /\ HasFlag(CallFlags, "AppendToIfReplace")

RefCycleEndWithText ==
    (IF quiet THEN <<>> ELSE TrimEndCR(pattern_space) \o <<NL>>) \o after_space \o <<NL>>

\* C32: text queued by an a command during a cycle is written at the end of
\* that cycle, after the auto-printed pattern space and on its own line (the
\* terminating newline of the pattern space comes before the text), also in
\* quiet mode.
C32_AppendTextOnItsOwnLine ==
    [][(pc = "end_cycle" /\ after_space /= <<>>) =>
          /\ Len(stdout') >= Len(stdout) + Len(RefCycleEndWithText)
          /\ SubSeq(stdout', 1, Len(stdout) + Len(RefCycleEndWithText))
               = stdout \o RefCycleEndWithText]_vars

(***************************************************************************)
(* awk: Regex::match_locations (src/awk/src/regex.rs).  An extended        *)
(* regular expression is a sequence of items [char, star]: one character,  *)
(* or one character followed by `*`.                                       *)
(***************************************************************************)
MaxString == 3
MaxCount == 3

Item(char) == [char |-> char, star |-> FALSE]
Star(char) == [char |-> char, star |-> TRUE]

\* the offsets at which a match of the items from item k on can end when it
\* begins at offset `at` of str
RECURSIVE MatchEnds(_, _, _, _)
MatchEnds(items, k, str, at) ==
    IF k > Len(items) THEN {at}
    ELSE LET here == at < Len(str) /\ str[at + 1] = items[k].char
         IN IF items[k].star
            THEN MatchEnds(items, k + 1, str, at)
                 \union (IF here THEN MatchEnds(items, k, str, at + 1) ELSE {})
            ELSE IF here THEN MatchEnds(items, k + 1, str, at + 1) ELSE {}

\* libc::regexec on the text from offset `from` with one regmatch_t: the
\* leftmost match and of those the longest, offsets relative to `from`;
\* rm_so = -1 stands for REG_NOMATCH
regexec(items, str, from) ==
    LET starts == {at \in from..Len(str) : MatchEnds(items, 1, str, at) /= {}}
    IN IF starts = {} THEN [rm_so |-> 0 - 1, rm_eo |-> 0 - 1]
       ELSE LET rm_so == Min(starts)
            IN [rm_so |-> rm_so - from, rm_eo |-> Max(MatchEnds(items, 1, str, rm_so)) - from]

RegexMatch(start, end) == [start |-> start, end |-> end]

\* Regex::match_locations: match_buffer.clear() and next_start = 0
MatchLocationsBegin ==
    /\ mpc = "call"
    /\ match_buffer' = <<>>
    /\ next_start' = 0
    /\ iteration' = 0
    /\ mpc' = "for"
    /\ UNCHANGED <<regex_string, string, max_count>>
    /\ UNCHANGED <<sedVars, parseVars, timeoutVars, positionVars>>

\* Regex::match_locations: one iteration of `for _ in 0..max_count`, or its end
MatchLocationsFor ==
    /\ mpc = "for"
    /\ IF iteration < max_count
       THEN LET match_range == regexec(regex_string, string, next_start)
            IN IF match_range.rm_so < 0
               THEN /\ mpc' = "returned"
                    /\ UNCHANGED <<match_buffer, next_start, iteration>>
               ELSE /\ match_buffer' = Append(match_buffer,
                                              RegexMatch(next_start + match_range.rm_so,
                                                         next_start + match_range.rm_eo))
                    /\ next_start' = next_start + match_range.rm_eo
                    /\ iteration' = iteration + 1
                    /\ UNCHANGED mpc
       ELSE /\ mpc' = "returned"
            /\ UNCHANGED <<match_buffer, next_start, iteration>>
    /\ UNCHANGED <<regex_string, string, max_count>>
    /\ UNCHANGED <<sedVars, parseVars, timeoutVars, positionVars>>

Expressions ==
    {<<Item("a")>>, <<Item("a"), Item("b")>>, <<Item("a"), Star("b")>>, <<Star("b")>>,
     <<Star("a"), Item("b")>>, <<Star("a"), Star("b")>>}

\* a caller's buffer may hold the matches of an earlier call
InitMatch ==
    /\ regex_string \in Expressions
    /\ string \in SeqsUpTo({"a", "b"}, MaxString)
    /\ max_count \in 0..MaxCount
    /\ match_buffer \in {<<>>, <<RegexMatch(0, 1)>>}
    /\ next_start = 0
    /\ iteration = 0
    /\ mpc = "call"
    /\ NotParsing
    /\ NoSed
    /\ NoTimeout
    /\ NoPosition

NextMatch == MatchLocationsBegin \/ MatchLocationsFor

SpecMatch == InitMatch /\ [][NextMatch]_vars

\* the for loop has pushed a match in this step
Pushes == mpc = "for" /\ Len(match_buffer') = Len(match_buffer) + 1

\* C33: match_locations returns at most max_count matches in increasing
\* order, each starting at or after the end of the previous one, and the
\* search offset strictly increases from one iteration to the next, also
\* after a zero-length match.
C33_SearchOffsetStrictlyIncreases ==
    [][Pushes =>
          /\ Len(match_buffer') <= max_count
          /\ \A k \in 2..Len(match_buffer') : match_buffer'[k].start >= match_buffer'[k - 1].end
          /\ next_start' > next_start]_vars

(***************************************************************************)
(* A command whose address does not apply                                  *)
(***************************************************************************)
\* the address of the current command is one line number, and not the number
\* of the line the addresses are matched against
RefNumberMisses ==
    /\ AtCommand
    /\ Len(CurrentCommand.addr) = 1
    /\ Len(CurrentCommand.addr[1].limits) = 1
    /\ CurrentCommand.addr[1].limits[1].kind = "Number"
    /\ CurrentCommand.addr[1].limits[1].n /= current_line + 1

\* the address of the current command is evaluated without a panic and does
\* not let the command execute
Skipped ==
    /\ AtCommand
    /\ ~NeedExecute(CurrentCommand, current_line, pattern_space).panic
    /\ ~Applies

\* C34: a command whose address does not apply to the current line leaves the
\* pattern space, the hold space, the append buffer, the replacement flag and
\* the output as they are, and the next command is the following one; only
\* the range state of its own address may change.
C34_SkippedCommandHasNoEffect ==
    [][(Skipped \/ RefNumberMisses) =>
          /\ pattern_space' = pattern_space
          /\ hold_space' = hold_space
          /\ after_space' = after_space
          /\ has_replacements_since_t' = has_replacements_since_t
          /\ stdout' = stdout
          /\ quiet' = quiet
          /\ wfiles' = wfiles
          /\ i' = i + 1
          /\ \A k \in 1..Len(script) : k /= i + 1 => script'[k] = script[k]
          /\ [script'[i + 1] EXCEPT !.addr = <<>>] = [CurrentCommand EXCEPT !.addr = <<>>]]_vars

(***************************************************************************)
(* The stored state of a range                                             *)
(***************************************************************************)
\* the ranges of two tokens that need_execute goes through for the current command
EvaluatedRanges ==
    IF AtCommand /\ CurrentCommand.verb \in AddressedVerbs
    THEN {k \in 1..Len(CurrentCommand.addr) : Len(CurrentCommand.addr[k].limits) = 2}
    ELSE {}

\* C35: whenever need_execute evaluates a range of two tokens, the stored
\* passed state of the range is not (start = false, end = true), so the
\* unreachable!() of need_execute is not hit.
C35_PassedNeverEndWithoutStart ==
    \A k \in EvaluatedRanges :
        ~(~CurrentCommand.addr[k].passed[1] /\ CurrentCommand.addr[k].passed[2])

(***************************************************************************)
(* Termination of a cycle.  Sed::process_line is a sequential loop: a      *)
(* step that can be taken is taken.                                        *)
(***************************************************************************)
CycleScripts ==
    {\* "N;h;D"
     <<AppendNextCmd, Command("ReplaceHoldWithPattern", NoAddress), DeleteFirstLine(NoAddress)>>,
     \* "N;P"
     <<AppendNextCmd, PrintFirstLine(NoAddress)>>,
     \* "N;2D"
     <<AppendNextCmd, DeleteFirstLine(Addr1(Number(2)))>>,
     \* "b end;p;:end;s/a/b/"
     <<BranchToLabel(NoAddress, End), PrintPattern(NoAddress), BearBranchLabel(End),
       Replace(NoAddress, ReA, <<"b">>, <<>>)>>,
     \* "s/x/y/;t end;s/a/b/;:end"
     <<Replace(NoAddress, ReX, <<"y">>, <<>>), Test(NoAddress, End),
       Replace(NoAddress, ReA, <<"b">>, <<>>), BearBranchLabel(End)>>,
     \* "n;2p"
     <<ReadNextCmd, PrintPattern(Addr1(Number(2)))>>}

InitCycle ==
    /\ script \in CycleScripts
    /\ input_sources \in {srcs \in Inputs : Len(srcs) = 1 /\ \A k \in 1..Len(srcs[1]) : srcs[1][k] = A}
    /\ openable = [k \in 1..Len(input_sources) |-> TRUE]
    /\ stderr = <<>>
    /\ quiet = FALSE
    /\ pattern_space = <<>>
    /\ hold_space = <<>>
    /\ after_space = <<>>
    /\ current_line = 0
    /\ has_replacements_since_t = FALSE
    /\ src_idx = 1
    /\ file_pos = 0
    /\ i = 0
    /\ global_instruction = "None"
    /\ stdout = <<>>
    /\ wfiles = <<>>
    /\ pc = "sed"
    /\ NotParsing
    /\ NoTimeout
    /\ NoAwk
    /\ NoPosition

SpecCycle == InitCycle /\ [][Next]_vars /\ WF_vars(Next)

\* no b or t of the script names a label that stands at a lower index
NoBackwardBranch ==
    \A k \in 1..Len(script) :
        (script[k].verb \in {"BranchToLabel", "Test"} /\ script[k].label /= <<>>)
            => \A j \in 1..(k - 1) :
                  ~(script[j].verb = "BearBranchLabel" /\ script[j].label = script[k].label)

\* C36: for a script without a branch to a label at a lower command index
\* every cycle terminates: from every command evaluation process_line comes
\* to the end of the cycle (or the run ends), also when D executes on a
\* pattern space that contains a newline.
C36_EveryCycleTerminates ==
    (pc = "exec" /\ NoBackwardBranch) ~> (pc /= "exec")

(***************************************************************************)
(* The line number                                                         *)
(***************************************************************************)
\* C37: at every command evaluation the line number used for address
\* matching and written by = (current_line + 1) is the count of the input
\* lines read so far from the current source, the lines consumed by n and N
\* included.
C37_LineNumberCountsLinesRead ==
    AtCommand => current_line + 1 = file_pos

(***************************************************************************)
(* timeout: the exit status                                                *)
(***************************************************************************)
\* an alarm the process has armed has expired, so that SIGALRM was generated
AlarmExpired == \E k \in 1..Len(armed) : armed[k].ticks > 0 /\ armed[k].at + armed[k].ticks <= now

\* C38: without --preserve-status timeout exits with status 124 only if the
\* time limit expired (SIGALRM was delivered to timeout) before the child
\* ended; a child that was only stopped and continued and then exits by
\* itself before the time limit gives its own exit status.
C38_Status124OnlyAfterTimeLimit ==
    (tpc = "exited" /\ ~args.preserve_status /\ exit_code = 124) => AlarmExpired

(***************************************************************************)
(* timeout: the lock of KILL_AFTER in nested handlers                      *)
(***************************************************************************)
\* the innermost invocation of handler is about to lock the mutex that an
\* invocation it has interrupted holds
LocksHeldMutex == handlers /= <<>> /\ TopHandler.pc = "lock" /\ kill_after_lock

\* C39: every invocation of the signal handler returns: no invocation comes
\* to acquire KILL_AFTER while an invocation that it interrupted holds the
\* lock, where it would never get it.
C39_NoHandlerWaitsForHeldLock == ~LocksHeldMutex

(***************************************************************************)
(* get_current_line_and_col called on its own, as its unit test calls it.  *)
(***************************************************************************)
MaxText == 4

\* chars.split(|c| *c == '\n') with the closure of the map: the start offset
\* of every piece (the offset after each newline; position k from 1 is offset k)
LineStarts(chars) ==
    <<0>> \o [n \in 1..Len(SelectSeq(chars, LAMBDA c : c = NL)) |->
                 Min({k \in 1..Len(chars) :
                        /\ chars[k] = NL
                        /\ Cardinality({j \in 1..k : chars[j] = NL}) = n})]

\* get_current_line_and_col: <<line, col>>, or <<>> for None
get_current_line_and_col(chars, at) ==
    LET lines_positions == LineStarts(chars)
        found == {line \in 1..Len(lines_positions) : at >= lines_positions[line]}
    IN IF found = {} THEN <<>>
       ELSE <<Min(found) - 1, at - lines_positions[Min(found)]>>

InitPosition ==
    /\ position_chars \in SeqsUpTo({"g", NL}, MaxText)
    /\ position_i \in 0..(MaxText + 1)
    /\ position = [returned |-> FALSE, value |-> <<>>]
    /\ NotParsing
    /\ NoSed
    /\ NoTimeout
    /\ NoAwk

CallGetCurrentLineAndCol ==
    /\ ~position.returned
    /\ position' = [returned |-> TRUE,
                    value |-> get_current_line_and_col(position_chars, position_i)]
    /\ UNCHANGED <<position_chars, position_i>>
    /\ UNCHANGED <<sedVars, parseVars, timeoutVars, awkVars>>

NextPosition == CallGetCurrentLineAndCol

SpecPosition == InitPosition /\ [][NextPosition]_vars

\* the line of the text that holds the offset and the column of the offset
\* in it, both counted from 0; nothing for an empty text or an offset beyond
\* the end of the text
RefLineAndCol(chars, at) ==
    IF chars = <<>> \/ at > Len(chars) THEN <<>>
    ELSE LET before == {k \in 1..at : chars[k] = NL}
         IN <<Cardinality(before), IF before = {} THEN at ELSE at - Max(before)>>

\* C40: get_current_line_and_col(chars, i) returns the 0-based index of the
\* script line that contains offset i together with the column of i within
\* that line, and None when the text is empty or i lies beyond its end.
C40_LineAndColumnOfOffset ==
    position.returned => position.value = RefLineAndCol(position_chars, position_i)

====
